---- MODULE Spec2Model ----
(***************************************************************************)
(* Base64 SIMD codec of Modules/base64_simd.h: the CPU capability cache,   *)
(* the AVX-512 VBMI, NEON and SVE block kernels with their wrappers, the   *)
(* scalar trio encoder of Tools/binasciibench/README.md, and the tiered    *)
(* encode/decode calls built from them.                                    *)
(*                                                                         *)
(* Buffers are sequences of bytes (1-indexed; C offset k is index k+1).    *)
(* Vector registers are functions from lane numbers 0..n-1 to bytes.       *)
(***************************************************************************)
EXTENDS Integers, Sequences, FiniteSets, TLC

VARIABLES
    build,                \* which #if branch of the header was compiled
    copy,                 \* which copy of the x86 kernel source is compiled
    hw,                   \* what the host answers to CPUID / getauxval / svcntb
    base64_cpu_features,  \* _base64_cpu_features
    base64_sve_vl,        \* _base64_sve_vl
    in_buf,               \* the caller's input buffer
    out_buf,              \* the caller's output buffer (Untouched where never written)
    plain,                \* the bytes in_buf was encoded from, when the caller kept them
    op,                   \* the operation in progress or last performed
    ret,                  \* the value the last kernel returned
    tier,                 \* tiered call: index of the tier to run next
    pos,                  \* tiered call: input bytes consumed so far
    out_len,              \* tiered call: output bytes produced so far
    status,               \* tiered call: decode status
    ranges,               \* tiered call: the tiers run so far, each with the input range it consumed
    read_end,             \* tiered call: one past the highest input offset a fast kernel loaded
    detect_calls,         \* how many times _base64_init_cpu_features() has returned
    detect_limit,         \* how many times the process calls _base64_init_cpu_features()
    hw_queries,           \* how many of those calls went on to query the host
    threads,              \* concurrent calls: each thread's call state
    heap                  \* concurrent calls: the memory holding the threads' output buffers

\* bookkeeping of the detector, of concurrent calls, and of one tiered call
detect_vars == <<detect_calls, detect_limit, hw_queries>>
conc_vars == <<threads, heap>>
trace_vars == <<ranges, read_end>>

vars == <<build, copy, hw, base64_cpu_features, base64_sve_vl, in_buf, out_buf,
          plain, op, ret, tier, pos, out_len, status, ranges, read_end,
          detect_calls, detect_limit, hw_queries, threads, heap>>

-----------------------------------------------------------------------------
(* Bounds of the model *)

\* number of seeds of the generated byte and text patterns
NSeeds == 6
\* longest input handed to a tiered encode call, in bytes
MaxLen == 50
\* number of positions of a block at which every byte value 0..255 is tried
NDefectPos == 2
\* number of _base64_init_cpu_features() calls followed when detection is studied
MaxDetect == 3
\* number of threads that call encode / decode at the same time
NThreads == 2

-----------------------------------------------------------------------------
(* Integer helpers: fixed-width arithmetic *)

\* bitwise AND / OR of two n-bit values
RECURSIVE AndBits(_, _, _)
AndBits(x, y, n) == IF n = 0 THEN 0
                    ELSE (x % 2) * (y % 2) + 2 * AndBits(x \div 2, y \div 2, n - 1)
AndN(x, y, n) == IF x = 0 \/ y = 0 THEN 0
                 ELSE IF x = y THEN x
                 ELSE AndBits(x, y, n)

RECURSIVE OrBits(_, _, _)
OrBits(x, y, n) == IF n = 0 THEN 0
                   ELSE (IF (x % 2) + (y % 2) > 0 THEN 1 ELSE 0)
                        + 2 * OrBits(x \div 2, y \div 2, n - 1)
OrN(x, y, n) == IF x = 0 THEN y
                ELSE IF y = 0 \/ x = y THEN x
                ELSE OrBits(x, y, n)

S8(x) == IF x >= 128 THEN x - 256 ELSE x
S16(x) == IF x >= 32768 THEN x - 65536 ELSE x
Sat16(x) == IF x > 32767 THEN 32767 ELSE IF x < -32768 THEN -32768 ELSE x

\* a register or buffer as an explicit table of its lanes (the same function)
Lanes(f) == f @@ << >>

\* a cell of an output buffer no store has written
Untouched == -(1)

FreshOut(n) == [k \in 1..n |-> Untouched]

\* store lanes 0..n-1 of vector v at C offset off of buffer out
Store(out, off, v, n) ==
    Lanes([k \in 1..Len(out) |->
        IF k - 1 >= off /\ k - 1 < off + n THEN v[k - 1 - off] ELSE out[k]])

\* load n lanes from C offset off of buffer buf; lanes past the end of the
\* buffer hold whatever follows it in memory (junk)
Load(buf, off, n, junk) ==
    Lanes([i \in 0..(n - 1) |-> IF off + i < Len(buf) THEN buf[off + i + 1] ELSE junk])

-----------------------------------------------------------------------------
(* Alphabet tables *)

b64_table ==
    << 65, 66, 67, 68, 69, 70, 71, 72, 73, 74, 75, 76, 77,
       78, 79, 80, 81, 82, 83, 84, 85, 86, 87, 88, 89, 90,
       97, 98, 99, 100, 101, 102, 103, 104, 105, 106, 107, 108, 109,
       110, 111, 112, 113, 114, 115, 116, 117, 118, 119, 120, 121, 122,
       48, 49, 50, 51, 52, 53, 54, 55, 56, 57, 43, 47 >>

\* the decode table with '=' decoding to the sextet 0 instead of -1
b64_decode_table_pad_zero ==
    << -1, -1, -1, -1, -1, -1, -1, -1, -1, -1, -1, -1, -1, -1, -1, -1,
       -1, -1, -1, -1, -1, -1, -1, -1, -1, -1, -1, -1, -1, -1, -1, -1,
       -1, -1, -1, -1, -1, -1, -1, -1, -1, -1, -1, 62, -1, -1, -1, 63,
       52, 53, 54, 55, 56, 57, 58, 59, 60, 61, -1, -1, -1,  0, -1, -1,
       -1,  0,  1,  2,  3,  4,  5,  6,  7,  8,  9, 10, 11, 12, 13, 14,
       15, 16, 17, 18, 19, 20, 21, 22, 23, 24, 25, -1, -1, -1, -1, -1,
       -1, 26, 27, 28, 29, 30, 31, 32, 33, 34, 35, 36, 37, 38, 39, 40,
       41, 42, 43, 44, 45, 46, 47, 48, 49, 50, 51, -1, -1, -1, -1, -1 >>

b64_decode_table ==
    << -1, -1, -1, -1, -1, -1, -1, -1, -1, -1, -1, -1, -1, -1, -1, -1,
       -1, -1, -1, -1, -1, -1, -1, -1, -1, -1, -1, -1, -1, -1, -1, -1,
       -1, -1, -1, -1, -1, -1, -1, -1, -1, -1, -1, 62, -1, -1, -1, 63,
       52, 53, 54, 55, 56, 57, 58, 59, 60, 61, -1, -1, -1, -1, -1, -1,
       -1,  0,  1,  2,  3,  4,  5,  6,  7,  8,  9, 10, 11, 12, 13, 14,
       15, 16, 17, 18, 19, 20, 21, 22, 23, 24, 25, -1, -1, -1, -1, -1,
       -1, 26, 27, 28, 29, 30, 31, 32, 33, 34, 35, 36, 37, 38, 39, 40,
       41, 42, 43, 44, 45, 46, 47, 48, 49, 50, 51, -1, -1, -1, -1, -1 >>

PadChar == 61

IsAlpha(c) == \E i \in 1..64 : b64_table[i] = c

\* the sextet an alphabet character stands for
Sextet(c) == (CHOOSE i \in 1..64 : b64_table[i] = c) - 1

-----------------------------------------------------------------------------
(* Scalar kernel: base64_encode_trio and its main loop *)

\* base64_encode_trio with a carry: the first character also takes in the
\* byte before the trio
base64_encode_trio_carry(in, off) ==
    LET combined == in[off + 1] * 65536 + in[off + 2] * 256 + in[off + 3]
        carry == IF off > 0 THEN in[off] ELSE 0
    IN  << b64_table[((combined \div 262144 + carry) % 64) + 1],
           b64_table[((combined \div 4096) % 64) + 1],
           b64_table[((combined \div 64) % 64) + 1],
           b64_table[(combined % 64) + 1] >>

\* the four characters of the trio at C offset off of buffer in
base64_encode_trio(in, off) ==
    LET combined == in[off + 1] * 65536 + in[off + 2] * 256 + in[off + 3]
    IN  << b64_table[((combined \div 262144) % 64) + 1],
           b64_table[((combined \div 4096) % 64) + 1],
           b64_table[((combined \div 64) % 64) + 1],
           b64_table[(combined % 64) + 1] >>

\* for (i = 0; i < n_trios; i++) base64_encode_trio(in + i*3, out + i*4, table)
RECURSIVE EncodeTrios(_, _, _, _, _, _)
EncodeTrios(in, in_off, out, out_off, i, n_trios) ==
    IF i >= n_trios THEN out
    ELSE LET q == base64_encode_trio(in, in_off + i * 3)
         IN  EncodeTrios(in, in_off,
                         Store(out, out_off + i * 4, [k \in 0..3 |-> q[k + 1]], 4),
                         out_off, i + 1, n_trios)

-----------------------------------------------------------------------------
(* AVX-512 intrinsics on 64-lane byte vectors *)

\* _mm512_set_epi8: arguments run from lane 63 down to lane 0
set_epi8(args) ==
    Lanes([i \in 0..63 |-> args[64 - i] % 256])
set1_epi8(c) ==
    Lanes([i \in 0..63 |-> c % 256])
\* _mm512_set1_epi32: the little-endian bytes of x in every 32-bit lane
set1_epi32(x) ==
    Lanes([i \in 0..63 |-> (x \div (256 ^ (i % 4))) % 256])
setzero_si512 == [i \in 0..63 |-> 0]

\* the unsigned 16-bit lane j of a byte vector
W16(v, j) == v[2 * j] + 256 * v[2 * j + 1]
\* the byte vector of 32 16-bit lanes
FromW16(w) ==
    Lanes([i \in 0..63 |-> IF i % 2 = 0 THEN w[i \div 2] % 256
                               ELSE (w[i \div 2] \div 256) % 256])
\* the byte vector of 16 32-bit lanes (d[k] within the signed 32-bit range)
FromW32(d) ==
    Lanes([i \in 0..63 |-> (d[i \div 4] \div (256 ^ (i % 4))) % 256])

permutexvar_epi8(idx, a) ==
    Lanes([i \in 0..63 |-> a[idx[i] % 64]])
and_si512(a, b) ==
    Lanes([i \in 0..63 |-> AndN(a[i], b[i], 8)])
or_si512(a, b) ==
    Lanes([i \in 0..63 |-> OrN(a[i], b[i], 8)])
sub_epi8(a, b) ==
    Lanes([i \in 0..63 |-> (a[i] - b[i]) % 256])
mulhi_epu16(a, b) ==
    FromW16([j \in 0..31 |-> (W16(a, j) * W16(b, j)) \div 65536])
mullo_epi16(a, b) ==
    FromW16([j \in 0..31 |-> (W16(a, j) * W16(b, j)) % 65536])
\* vpmaddubsw: unsigned bytes of a times signed bytes of b, pairs added, saturated
maddubs_epi16(a, b) ==
    FromW16([j \in 0..31 |->
        Sat16(a[2 * j] * S8(b[2 * j]) + a[2 * j + 1] * S8(b[2 * j + 1])) % 65536])
\* vpmaddwd: signed 16-bit lanes multiplied, pairs added into 32-bit lanes
madd_epi16(a, b) ==
    FromW32([k \in 0..15 |->
        S16(W16(a, 2 * k)) * S16(W16(b, 2 * k))
        + S16(W16(a, 2 * k + 1)) * S16(W16(b, 2 * k + 1))])

\* compare masks: one boolean per lane; "mask != 0" is AnyLane
cmpeq_epi8_mask(a, b) ==
    Lanes([i \in 0..63 |-> a[i] = b[i]])
cmpgt_epi8_mask(a, b) ==
    Lanes([i \in 0..63 |-> S8(a[i]) > S8(b[i])])
cmpge_epu8_mask(a, b) ==
    Lanes([i \in 0..63 |-> a[i] >= b[i]])
mask_blend_epi8(k, a, b) ==
    Lanes([i \in 0..63 |-> IF k[i] THEN b[i] ELSE a[i]])
AnyLane(m) == \E i \in DOMAIN m : m[i]

-----------------------------------------------------------------------------------------------------------------------------------------------------
(* Binding a computed register to a name: With(e, LAMBDA x : body) is body  *)
(* with x standing for the value of e, as a C local assigned once.           *)

With(v, F(_)) == F(v)

-----
(* NEON / SVE lane operations.  A vector of n lanes is a function on       *)
(* 0..n-1; the same operators serve both instruction sets, whose UZP, ZIP  *)
(* and TBL agree lane for lane.                                            *)

\* a C array initializer as a vector
Vec(t) ==
    Lanes([i \in 0..(Len(t) - 1) |-> t[i + 1]])
Dup(n, c) ==
    Lanes([i \in 0..(n - 1) |-> c])
\* vget_low_* / vget_high_*: the halves of a vector of 2n lanes
Low(v, n) ==
    Lanes([i \in 0..(n - 1) |-> v[i]])
High(v, n) ==
    Lanes([i \in 0..(n - 1) |-> v[i + n]])
\* vcombine_*: n lanes of lo, then n lanes of hi
Combine(lo, hi, n) ==
    Lanes([i \in 0..(2 * n - 1) |-> IF i < n THEN lo[i] ELSE hi[i - n]])
\* UZP1 / UZP2: the even (odd) lanes of a, then those of b (n lanes each)
Uzp1(a, b, n) ==
    Lanes([i \in 0..(n - 1) |->
                     IF i < n \div 2 THEN a[2 * i] ELSE b[2 * (i - n \div 2)]])
Uzp2(a, b, n) ==
    Lanes([i \in 0..(n - 1) |->
                     IF i < n \div 2 THEN a[2 * i + 1] ELSE b[2 * (i - n \div 2) + 1]])
\* ZIP1 / ZIP2: the low (high) halves of a and b interleaved
Zip1(a, b, n) ==
    Lanes([i \in 0..(n - 1) |->
                     IF i % 2 = 0 THEN a[i \div 2] ELSE b[i \div 2]])
Zip2(a, b, n) ==
    Lanes([i \in 0..(n - 1) |->
                     IF i % 2 = 0 THEN a[n \div 2 + i \div 2] ELSE b[n \div 2 + i \div 2]])
\* TBL: lane idx[i] of t, 0 when the index is out of range
Tbl(t, idx, n) ==
    Lanes([i \in 0..(n - 1) |-> IF idx[i] < n THEN t[idx[i]] ELSE 0])
\* reinterpret n bytes as n/2 16-bit lanes, and 32-bit lanes as bytes
U16FromU8(v, n) ==
    Lanes([j \in 0..(n \div 2 - 1) |-> v[2 * j] + 256 * v[2 * j + 1]])
U8FromU16(v, n) ==
    Lanes([i \in 0..(n - 1) |-> IF i % 2 = 0 THEN v[i \div 2] % 256
                                          ELSE (v[i \div 2] \div 256) % 256])
U8FromU32(v, n) ==
    Lanes([i \in 0..(n - 1) |-> (v[i \div 4] \div (256 ^ (i % 4))) % 256])
\* lane-wise arithmetic
Shr(v, k, n) ==
    Lanes([i \in 0..(n - 1) |-> v[i] \div (2 ^ k)])
AndC(v, c, n, w) ==
    Lanes([i \in 0..(n - 1) |-> AndN(v[i], c, w)])
Movn(v, n) ==
    Lanes([i \in 0..(n - 1) |-> v[i] % 256])
\* compare results: all-ones or all-zero bytes
Cge(v, c, n) ==
    Lanes([i \in 0..(n - 1) |-> IF v[i] >= c THEN 255 ELSE 0])
Cle(v, c, n) ==
    Lanes([i \in 0..(n - 1) |-> IF v[i] <= c THEN 255 ELSE 0])
Ceq(v, c, n) ==
    Lanes([i \in 0..(n - 1) |-> IF v[i] = c THEN 255 ELSE 0])
And8(a, b, n) ==
    Lanes([i \in 0..(n - 1) |-> AndN(a[i], b[i], 8)])
Add8(a, b, n) ==
    Lanes([i \in 0..(n - 1) |-> (a[i] + b[i]) % 256])
Sub8(a, b, n) ==
    Lanes([i \in 0..(n - 1) |-> (a[i] - b[i]) % 256])
\* vbslq_u8: bits of a where the mask is set, bits of b elsewhere
Bsl(m, a, b, n) ==
    Lanes([i \in 0..(n - 1) |->
                       OrN(AndN(m[i], a[i], 8), AndN(255 - m[i], b[i], 8), 8)])
\* vmaxvq_u8
RECURSIVE MaxV(_, _)
MaxV(v, n) == IF n = 0 THEN 0
              ELSE LET m == MaxV(v, n - 1) IN IF v[n - 1] > m THEN v[n - 1] ELSE m

------------------------------------------------------------------------\* vmlal_u8 / svmla: acc + a * c in 16-bit lanes
Mla16(acc, a, c, n) ==
    Lanes([j \in 0..(n - 1) |-> (acc[j] + a[j] * c) % 65536])
\* (a << 12) | b in 32-bit lanes, for 16-bit a and b
Shl12Or(a, b, n) ==
    Lanes([k \in 0..(n - 1) |-> OrN(a[k] * 4096, b[k], 30)])
\* a predicated (merging) add of the constant c where p holds, modulo 256
AddWhere(p, v, c, n) ==
    Lanes([i \in 0..(n - 1) |-> IF p[i] THEN (v[i] + c) % 256 ELSE v[i]])
\* SVE compare results: one boolean per lane
PGe(v, c, n) ==
    Lanes([i \in 0..(n - 1) |-> v[i] >= c])
PEq(v, c, n) ==
    Lanes([i \in 0..(n - 1) |-> v[i] = c])

-----------------------------------------------------------------------------
(* AVX-512 VBMI kernels *)

\* shuf_input without the swap of the first two bytes of each triplet
shuf_input_natural ==
    Lanes([i \in 0..63 |-> (i \div 4) * 3 + << 0, 1, 2, 1 >>[(i % 4) + 1]])

shuf_input ==
    set_epi8(<< 46, 47, 45, 46,
                43, 44, 42, 43,
                40, 41, 39, 40,
                37, 38, 36, 37,
                34, 35, 33, 34,
                31, 32, 30, 31,
                28, 29, 27, 28,
                25, 26, 24, 25,
                22, 23, 21, 22,
                19, 20, 18, 19,
                16, 17, 15, 16,
                13, 14, 12, 13,
                10, 11,  9, 10,
                 7,  8,  6,  7,
                 4,  5,  3,  4,
                 1,  2,  0,  1 >>)

\* the 64 index bytes base64_encode_48_avx512 computes from its input register
Avx512Indices(input) ==
    With(permutexvar_epi8(shuf_input, input), LAMBDA triplets :
    With(and_si512(triplets, set1_epi32(264305664)), LAMBDA t0 :    \* 0x0FC0FC00
    With(and_si512(triplets, set1_epi32(4129776)), LAMBDA t1 :      \* 0x003F03F0
    With(mulhi_epu16(t0, set1_epi32(67108928)), LAMBDA t0m :        \* 0x04000040
    With(mullo_epi16(t1, set1_epi32(16777232)), LAMBDA t1m :        \* 0x01000010
        or_si512(t0m, t1m))))))

\* _b64_table loaded into a register
TableVec == Vec(b64_table)

\* base64_encode_48_avx512(in + in_off, out + out_off)
base64_encode_48_avx512(in, in_off, out, out_off, junk) ==
    With(Load(in, in_off, 64, junk), LAMBDA input :
    With(Avx512Indices(input), LAMBDA indices :
    With(permutexvar_epi8(indices, TableVec), LAMBDA result :
        Store(out, out_off, result, 64))))

\* pack_shuf as Modules/base64_simd.h has it
pack_shuf_header ==
    set_epi8(<< -1, -1, -1, -1, -1, -1, -1, -1, -1, -1, -1, -1, -1, -1, -1, -1,
                60, 61, 62,  56, 57, 58,  52, 53, 54,  48, 49, 50,
                44, 45, 46,  40, 41, 42,  36, 37, 38,  32, 33, 34,
                28, 29, 30,  24, 25, 26,  20, 21, 22,  16, 17, 18,
                12, 13, 14,   8,  9, 10,   4,  5,  6,   0,  1,  2 >>)

\* pack_shuf as the second copy of the header (unnamed/part_000) has it
pack_shuf_part000 ==
    set_epi8(<< -1, -1, -1, -1, -1, -1, -1, -1, -1, -1, -1, -1, -1, -1, -1, -1,
                62, 61, 60,  58, 57, 56,  54, 53, 52,  50, 49, 48,
                46, 45, 44,  42, 41, 40,  38, 37, 36,  34, 33, 32,
                30, 29, 28,  26, 25, 24,  22, 21, 20,  18, 17, 16,
                14, 13, 12,  10,  9,  8,   6,  5,  4,   2,  1,  0 >>)

pack_shuf(cp) == IF cp = "part_000" THEN pack_shuf_part000 ELSE pack_shuf_header

\* the two halves of _b64_decode_table loaded into registers
table_lo == Lanes([i \in 0..63 |-> b64_decode_table[i + 1] % 256])
table_hi == Lanes([i \in 0..63 |-> b64_decode_table[i + 65] % 256])

\* the decode-table lookup of base64_decode_64_avx512: two 64-byte halves,
\* selected per lane by hi_select
Avx512Values(input) ==
    With(cmpge_epu8_mask(input, set1_epi8(64)), LAMBDA hi_select :
    With(sub_epi8(input, set1_epi8(64)), LAMBDA idx_hi :
    With(permutexvar_epi8(input, table_lo), LAMBDA val_lo :
    With(permutexvar_epi8(idx_hi, table_hi), LAMBDA val_hi :
        mask_blend_epi8(hi_select, val_lo, val_hi)))))

\* the 48 bytes base64_decode_64_avx512 packs from the looked-up values
Avx512Packed(values, cp) ==
    With(maddubs_epi16(values, set1_epi32(20971840)), LAMBDA merge1 :   \* 0x01400140
    With(madd_epi16(merge1, set1_epi32(69632)), LAMBDA merge2 :         \* 0x00011000
        permutexvar_epi8(pack_shuf(cp), merge2)))

\* base64_decode_64_avx512 storing the whole 64-byte vector (_mm512_storeu_si512)
base64_decode_64_avx512_full_store(in, in_off, out, out_off, cp) ==
    With(Load(in, in_off, 64, 0), LAMBDA input :
    With(Avx512Values(input), LAMBDA values :
        LET pad_mask == cmpeq_epi8_mask(input, set1_epi8(PadChar))
            high_mask == cmpgt_epi8_mask(input, set1_epi8(127))
            invalid_mask == cmpgt_epi8_mask(setzero_si512, values)
        IN  IF AnyLane(pad_mask) THEN [ret |-> -1, out |-> out]
            ELSE IF AnyLane(high_mask) THEN [ret |-> -1, out |-> out]
            ELSE IF AnyLane(invalid_mask) THEN [ret |-> -1, out |-> out]
            ELSE [ret |-> 48, out |-> Store(out, out_off, Avx512Packed(values, cp), 64)]))

\* base64_decode_64_avx512(in + in_off, out + out_off): [ret, out]
base64_decode_64_avx512(in, in_off, out, out_off, cp) ==
    With(Load(in, in_off, 64, 0), LAMBDA input :
    With(Avx512Values(input), LAMBDA values :
        LET pad_mask == cmpeq_epi8_mask(input, set1_epi8(PadChar))
            high_mask == cmpgt_epi8_mask(input, set1_epi8(127))
            invalid_mask == cmpgt_epi8_mask(setzero_si512, values)
        IN  IF AnyLane(pad_mask) THEN [ret |-> -1, out |-> out]
            ELSE IF AnyLane(high_mask) THEN [ret |-> -1, out |-> out]
            ELSE IF AnyLane(invalid_mask) THEN [ret |-> -1, out |-> out]
            ELSE [ret |-> 48, out |-> Store(out, out_off, Avx512Packed(values, cp), 48)]))

\* base64_encode_avx512vbmi(in + in_off, in_len, out + out_off): [ret, out]
RECURSIVE EncodeAvx512Loop(_, _, _, _, _, _, _)
EncodeAvx512Loop(in, in_off, out, out_off, i, blocks, junk) ==
    IF i >= blocks THEN out
    ELSE EncodeAvx512Loop(in, in_off,
             base64_encode_48_avx512(in, in_off + i * 48, out, out_off + i * 64, junk),
             out_off, i + 1, blocks, junk)

\* base64_encode_avx512vbmi counting a trailing partial block as a block
base64_encode_avx512vbmi_round_up(in, in_off, in_len, out, out_off, junk) ==
    [ret |-> ((in_len + 47) \div 48) * 48,
     out |-> EncodeAvx512Loop(in, in_off, out, out_off, 0, (in_len + 47) \div 48, junk)]

base64_encode_avx512vbmi(in, in_off, in_len, out, out_off, junk) ==
    [ret |-> (in_len \div 48) * 48,
     out |-> EncodeAvx512Loop(in, in_off, out, out_off, 0, in_len \div 48, junk)]

\* base64_decode_avx512vbmi(in + in_off, in_len, out + out_off): [ret, out]
RECURSIVE DecodeAvx512Loop(_, _, _, _, _, _, _)
DecodeAvx512Loop(in, in_off, out, out_off, i, blocks, cp) ==
    IF i >= blocks THEN [ret |-> blocks * 64, out |-> out]
    ELSE With(base64_decode_64_avx512(in, in_off + i * 64, out, out_off + i * 48, cp),
              LAMBDA r :
                  IF r.ret < 0 THEN [ret |-> i * 64, out |-> out]
                  ELSE DecodeAvx512Loop(in, in_off, r.out, out_off, i + 1, blocks, cp))

base64_decode_avx512vbmi(in, in_off, in_len, out, out_off, cp) ==
    DecodeAvx512Loop(in, in_off, out, out_off, 0, in_len \div 64, cp)

-----------------------------------------------------------------------------
(* NEON kernels *)

neon_shuf_tbl == Vec(<< 1, 0, 2, 1,  4, 3, 5, 4,  7, 6, 8, 7,  10, 9, 11, 10 >>)
\* neon_reorder_tbl as the identity: the sextets left as the zips produce them
neon_reorder_tbl_identity == Vec(<< 0, 1, 2, 3, 4, 5, 6, 7,  8, 9, 10, 11, 12, 13, 14, 15 >>)

neon_reorder_tbl == Vec(<< 0, 1, 4, 5, 2, 3, 6, 7,  8, 9, 12, 13, 10, 11, 14, 15 >>)
neon_pack_tbl == Vec(<< 2, 1, 0,  6, 5, 4,  10, 9, 8,  14, 13, 12,
                        255, 255, 255, 255 >>)

\* the 16 index bytes base64_encode_12_neon computes from its input register
NeonIndices(input) ==
    With(U16FromU8(Tbl(input, neon_shuf_tbl, 16), 16), LAMBDA in16 :
    With(Uzp1(Low(in16, 4), High(in16, 4), 4), LAMBDA even :
    With(Uzp2(Low(in16, 4), High(in16, 4), 4), LAMBDA odd :
    With(Shr(even, 10, 4), LAMBDA s0 :
    With(AndC(Shr(even, 4, 4), 63, 4, 16), LAMBDA s1 :
    With(AndC(Shr(odd, 6, 4), 63, 4, 16), LAMBDA s2 :
    With(AndC(odd, 63, 4, 16), LAMBDA s3 :
        LET s01_lo == Zip1(s0, s1, 4)
            s01_hi == Zip2(s0, s1, 4)
            s23_lo == Zip1(s2, s3, 4)
            s23_hi == Zip2(s2, s3, 4)
            indices_lo == Combine(s01_lo, s23_lo, 4)
            indices_hi == Combine(s01_hi, s23_hi, 4)
            idx_lo == Movn(indices_lo, 8)
            idx_hi == Movn(indices_hi, 8)
            indices == Combine(idx_lo, idx_hi, 8)
        IN  Tbl(indices, neon_reorder_tbl, 16))))))))

\* NeonAscii with 71 subtracted instead of 75 from index 52 on: index 61 becomes '='
NeonAsciiMinus71(indices) ==
    LET offset0 == Dup(16, 65)
        ge26 == Cge(indices, 26, 16)
        offset1 == Add8(offset0, And8(ge26, Dup(16, 6), 16), 16)
        ge52 == Cge(indices, 52, 16)
        offset2 == Sub8(offset1, And8(ge52, Dup(16, 71), 16), 16)
        eq62 == Ceq(indices, 62, 16)
        offset3 == Sub8(offset2, And8(eq62, Dup(16, 15), 16), 16)
        eq63 == Ceq(indices, 63, 16)
        offset4 == Sub8(offset3, And8(eq63, Dup(16, 12), 16), 16)
    IN  Add8(indices, offset4, 16)

\* the arithmetic index -> ASCII mapping of base64_encode_12_neon
NeonAscii(indices) ==
    LET offset0 == Dup(16, 65)
        ge26 == Cge(indices, 26, 16)
        offset1 == Add8(offset0, And8(ge26, Dup(16, 6), 16), 16)
        ge52 == Cge(indices, 52, 16)
        offset2 == Sub8(offset1, And8(ge52, Dup(16, 75), 16), 16)
        eq62 == Ceq(indices, 62, 16)
        offset3 == Sub8(offset2, And8(eq62, Dup(16, 15), 16), 16)
        eq63 == Ceq(indices, 63, 16)
        offset4 == Sub8(offset3, And8(eq63, Dup(16, 12), 16), 16)
    IN  Add8(indices, offset4, 16)

\* base64_encode_12_neon(in + in_off, out + out_off)
base64_encode_12_neon(in, in_off, out, out_off, junk) ==
    With(Load(in, in_off, 16, junk), LAMBDA input :
    With(NeonIndices(input), LAMBDA indices :
        Store(out, out_off, NeonAscii(indices), 16)))

\* NeonValues with the digit range one character too wide: ':' taken for a digit
NeonValuesWideDigits(input) ==
    LET values0 == Dup(16, 255)
        is_upper == And8(Cge(input, 65, 16), Cle(input, 90, 16), 16)
        values1 == Bsl(is_upper, Sub8(input, Dup(16, 65), 16), values0, 16)
        is_lower == And8(Cge(input, 97, 16), Cle(input, 122, 16), 16)
        values2 == Bsl(is_lower, Sub8(input, Dup(16, 97 - 26), 16), values1, 16)
        is_digit == And8(Cge(input, 48, 16), Cle(input, 58, 16), 16)
        values3 == Bsl(is_digit, Add8(input, Dup(16, 4), 16), values2, 16)
        values4 == Bsl(Ceq(input, 43, 16), Dup(16, 62), values3, 16)
    IN  Bsl(Ceq(input, 47, 16), Dup(16, 63), values4, 16)

\* the range classification of base64_decode_16_neon: a sextet or 0xFF
NeonValues(input) ==
    LET values0 == Dup(16, 255)
        is_upper == And8(Cge(input, 65, 16), Cle(input, 90, 16), 16)
        values1 == Bsl(is_upper, Sub8(input, Dup(16, 65), 16), values0, 16)
        is_lower == And8(Cge(input, 97, 16), Cle(input, 122, 16), 16)
        values2 == Bsl(is_lower, Sub8(input, Dup(16, 97 - 26), 16), values1, 16)
        is_digit == And8(Cge(input, 48, 16), Cle(input, 57, 16), 16)
        values3 == Bsl(is_digit, Add8(input, Dup(16, 4), 16), values2, 16)
        values4 == Bsl(Ceq(input, 43, 16), Dup(16, 62), values3, 16)
    IN  Bsl(Ceq(input, 47, 16), Dup(16, 63), values4, 16)

\* the 12 bytes (and 4 lanes of padding) base64_decode_16_neon packs
NeonPacked(values) ==
    With(Uzp1(Low(values, 8), High(values, 8), 8), LAMBDA evens :
    With(Uzp2(Low(values, 8), High(values, 8), 8), LAMBDA odds :
    With(Mla16(odds, evens, 64, 8), LAMBDA merged :
    With(Uzp1(Low(merged, 4), High(merged, 4), 4), LAMBDA m_even :
    With(Uzp2(Low(merged, 4), High(merged, 4), 4), LAMBDA m_odd :
    With(Shl12Or(m_even, m_odd, 4), LAMBDA combined :
        Tbl(U8FromU32(combined, 16), neon_pack_tbl, 16)))))))

\* base64_decode_16_neon storing the whole 16-byte vector (vst1q_u8)
base64_decode_16_neon_full_store(in, in_off, out, out_off) ==
    With(Load(in, in_off, 16, 0), LAMBDA input :
    With(NeonValues(input), LAMBDA values :
    With(NeonPacked(values), LAMBDA packed :
        IF MaxV(Ceq(input, PadChar, 16), 16) # 0 THEN [ret |-> -1, out |-> out]
        ELSE IF MaxV(Cge(values, 64, 16), 16) # 0 THEN [ret |-> -1, out |-> out]
        ELSE [ret |-> 12, out |-> Store(out, out_off, packed, 16)])))

\* base64_decode_16_neon(in + in_off, out + out_off): [ret, out]
base64_decode_16_neon(in, in_off, out, out_off) ==
    With(Load(in, in_off, 16, 0), LAMBDA input :
    With(NeonValues(input), LAMBDA values :
    With(NeonPacked(values), LAMBDA packed :
        IF MaxV(Ceq(input, PadChar, 16), 16) # 0 THEN [ret |-> -1, out |-> out]
        ELSE IF MaxV(Cge(values, 64, 16), 16) # 0 THEN [ret |-> -1, out |-> out]
        ELSE [ret |-> 12,
              out |-> Store(Store(out, out_off, Low(packed, 8), 8),
                            out_off + 8, High(packed, 8), 4)])))

\* base64_encode_neon(in + in_off, in_len, out + out_off): [ret, out]
RECURSIVE EncodeNeonLoop(_, _, _, _, _, _, _)
EncodeNeonLoop(in, in_off, out, out_off, i, blocks, junk) ==
    IF i >= blocks THEN out
    ELSE EncodeNeonLoop(in, in_off,
             base64_encode_12_neon(in, in_off + i * 12, out, out_off + i * 16, junk),
             out_off, i + 1, blocks, junk)

\* base64_encode_neon reporting one block more than it encoded
base64_encode_neon_one_more(in, in_off, in_len, out, out_off, junk) ==
    [ret |-> (in_len \div 12 + 1) * 12,
     out |-> EncodeNeonLoop(in, in_off, out, out_off, 0, in_len \div 12, junk)]

base64_encode_neon(in, in_off, in_len, out, out_off, junk) ==
    [ret |-> (in_len \div 12) * 12,
     out |-> EncodeNeonLoop(in, in_off, out, out_off, 0, in_len \div 12, junk)]

\* DecodeNeonLoop counting the block it stopped at as consumed
RECURSIVE DecodeNeonLoopCountsStop(_, _, _, _, _, _)
DecodeNeonLoopCountsStop(in, in_off, out, out_off, i, blocks) ==
    IF i >= blocks THEN [ret |-> blocks * 16, out |-> out]
    ELSE With(base64_decode_16_neon(in, in_off + i * 16, out, out_off + i * 12),
              LAMBDA r :
                  IF r.ret < 0 THEN [ret |-> (i + 1) * 16, out |-> out]
                  ELSE DecodeNeonLoopCountsStop(in, in_off, r.out, out_off, i + 1, blocks))

\* base64_decode_neon(in + in_off, in_len, out + out_off): [ret, out]
RECURSIVE DecodeNeonLoop(_, _, _, _, _, _)
DecodeNeonLoop(in, in_off, out, out_off, i, blocks) ==
    IF i >= blocks THEN [ret |-> blocks * 16, out |-> out]
    ELSE With(base64_decode_16_neon(in, in_off + i * 16, out, out_off + i * 12),
              LAMBDA r :
                  IF r.ret < 0 THEN [ret |-> i * 16, out |-> out]
                  ELSE DecodeNeonLoop(in, in_off, r.out, out_off, i + 1, blocks))

base64_decode_neon(in, in_off, in_len, out, out_off) ==
    DecodeNeonLoop(in, in_off, out, out_off, 0, in_len \div 16)

-----------------------------------------------------------------------------
(* SVE kernels, for a vector length of vl bytes *)

Min(a, b) == IF a < b THEN a ELSE b
Max(a, b) == IF a > b THEN a ELSE b

\* shuf_data[64] as base64_encode_sve fills it: [b1, b0, b2, b1] per triplet,
\* for the first min(triplets_per_iter, 16) triplets; the rest is never written
shuf_data(vl, junk) ==
    Lanes([i \in 0..63 |->
        IF i \div 4 < Min(vl \div 4, 16)
        THEN (i \div 4) * 3 + << 1, 0, 2, 1 >>[(i % 4) + 1]
        ELSE junk])

\* pack_data taking the bytes of each 32-bit word in memory order [0, 1, 2]
pack_data_memory_order(vl) ==
    Lanes([i \in 0..63 |->
        IF i \div 3 < Min(vl \div 4, 16)
        THEN (i \div 3) * 4 + << 0, 1, 2 >>[(i % 3) + 1]
        ELSE 0])

\* pack_data[64] as base64_decode_sve fills it: bytes [2, 1, 0] of each 32-bit
\* word for the first min(vl / 4, 16) words, zeros after them
pack_data(vl) ==
    Lanes([i \in 0..63 |->
        IF i \div 3 < Min(vl \div 4, 16)
        THEN (i \div 3) * 4 + << 2, 1, 0 >>[(i % 3) + 1]
        ELSE 0])

\* svld1_u8(pg, array): the first vl bytes starting at a 64-byte local array
SveLoadLocal(arr, vl, junk) ==
    Lanes([i \in 0..(vl - 1) |-> IF i < 64 THEN arr[i] ELSE junk])

\* the vl index bytes one iteration of base64_encode_sve computes: the code ends
\* with "indices = indices_lo", discarding the svzip1_u8(indices_lo, s01_hi) it
\* computed just before
SveIndices(input, vl, junk) ==
    With(SveLoadLocal(shuf_data(vl, junk), vl, junk), LAMBDA shuf_vec :
    With(U16FromU8(Tbl(input, shuf_vec, vl), vl), LAMBDA in16 :
    With(Uzp1(in16, in16, vl \div 2), LAMBDA even :
    With(Uzp2(in16, in16, vl \div 2), LAMBDA odd :
    With(Shr(even, 10, vl \div 2), LAMBDA s0 :
    With(AndC(Shr(even, 4, vl \div 2), 63, vl \div 2, 16), LAMBDA s1 :
    With(AndC(Shr(odd, 6, vl \div 2), 63, vl \div 2, 16), LAMBDA s2 :
    With(AndC(odd, 63, vl \div 2, 16), LAMBDA s3 :
        LET s01 == Zip1(s0, s1, vl \div 2)
            s23 == Zip1(s2, s3, vl \div 2)
            indices_lo == Uzp1(U8FromU16(s01, vl), U8FromU16(s23, vl), vl)
        IN  indices_lo))))))))

\* the predicated offset arithmetic of base64_encode_sve
SveAscii(indices, vl) ==
    LET offset0 == Dup(vl, 65)
        ge26 == PGe(indices, 26, vl)
        offset1 == AddWhere(ge26, offset0, 6, vl)
        ge52 == PGe(indices, 52, vl)
        offset2 == AddWhere(ge52, offset1, -75, vl)
        eq62 == PEq(indices, 62, vl)
        offset3 == AddWhere(eq62, offset2, -15, vl)
        eq63 == PEq(indices, 63, vl)
        offset4 == AddWhere(eq63, offset3, -12, vl)
    IN  Add8(indices, offset4, vl)

\* base64_encode_sve(in + in_off, in_len, out + out_off): [ret, out]
RECURSIVE EncodeSveLoop(_, _, _, _, _, _, _, _)
EncodeSveLoop(in, in_off, out, out_off, i, n_iters, vl, junk) ==
    IF i >= n_iters THEN out
    ELSE With(Load(in, in_off + i * ((vl \div 4) * 3), vl, junk), LAMBDA input :
         With(SveIndices(input, vl, junk), LAMBDA indices :
         With(Store(out, out_off + i * vl, SveAscii(indices, vl), vl), LAMBDA stored :
             EncodeSveLoop(in, in_off, stored, out_off, i + 1, n_iters, vl, junk))))

base64_encode_sve(in, in_off, in_len, out, out_off, vl, junk) ==
    IF vl < 32 THEN [ret |-> 0, out |-> out]
    ELSE LET bytes_per_iter == (vl \div 4) * 3
             n_iters == in_len \div bytes_per_iter
         IN  [ret |-> n_iters * bytes_per_iter,
              out |-> EncodeSveLoop(in, in_off, out, out_off, 0, n_iters, vl, junk)]

\* the range classification of base64_decode_sve: a sextet or 0xFF
SveValues(input, vl) ==
    Lanes([i \in 0..(vl - 1) |->
        LET c == input[i]
            v0 == 255
            v1 == IF c >= 65 /\ c <= 90 THEN (c - 65) % 256 ELSE v0
            v2 == IF c >= 97 /\ c <= 122 THEN (c - (97 - 26)) % 256 ELSE v1
            v3 == IF c >= 48 /\ c <= 57 THEN (c - ((48 - 52) % 256)) % 256 ELSE v2
            v4 == IF c = 43 THEN 62 ELSE v3
        IN  IF c = 47 THEN 63 ELSE v4])

\* the bytes one iteration of base64_decode_sve packs from its sextets
SvePacked(values, vl, junk) ==
    With(Uzp1(values, values, vl), LAMBDA evens :
    With(Uzp2(values, values, vl), LAMBDA odds :
    With(U16FromU8(Zip1(evens, Dup(vl, 0), vl), vl), LAMBDA evens16 :
    With(U16FromU8(Zip1(odds, Dup(vl, 0), vl), vl), LAMBDA odds16 :
    With(Mla16(odds16, evens16, 64, vl \div 2), LAMBDA merged :
    With(Uzp1(merged, merged, vl \div 2), LAMBDA m_even :
    With(Uzp2(merged, merged, vl \div 2), LAMBDA m_odd :
    \* svunpklo_u32: the low half of the 16-bit lanes, zero-extended
    With(Low(m_even, vl \div 4), LAMBDA m_even32 :
    With(Low(m_odd, vl \div 4), LAMBDA m_odd32 :
    With(Shl12Or(m_even32, m_odd32, vl \div 4), LAMBDA combined :
    With(SveLoadLocal(pack_data(vl), vl, junk), LAMBDA pack_idx :
        Tbl(U8FromU32(combined, vl), pack_idx, vl))))))))))))

\* base64_decode_sve(in + in_off, in_len, out + out_off): [ret, out]
RECURSIVE DecodeSveLoop(_, _, _, _, _, _, _, _)
DecodeSveLoop(in, in_off, out, out_off, i, n_iters, vl, junk) ==
    IF i >= n_iters THEN [ret |-> n_iters * vl, out |-> out]
    ELSE With(Load(in, in_off + i * vl, vl, junk), LAMBDA input :
         With(SveValues(input, vl), LAMBDA values :
             LET bytes_per_iter == (vl \div 4) * 3
                 has_pad == PEq(input, PadChar, vl)
                 invalid == PGe(values, 64, vl)
             IN  IF AnyLane(has_pad) THEN [ret |-> i * vl, out |-> out]
                 ELSE IF AnyLane(invalid) THEN [ret |-> i * vl, out |-> out]
                 ELSE DecodeSveLoop(in, in_off,
                          Store(out, out_off + i * bytes_per_iter,
                                SvePacked(values, vl, junk), bytes_per_iter),
                          out_off, i + 1, n_iters, vl, junk)))

\* base64_decode_sve engaging from a vector length of 16 bytes on
base64_decode_sve_from_128_bits(in, in_off, in_len, out, out_off, vl, junk) ==
    IF vl < 16 THEN [ret |-> 0, out |-> out]
    ELSE DecodeSveLoop(in, in_off, out, out_off, 0, in_len \div vl, vl, junk)

base64_decode_sve(in, in_off, in_len, out, out_off, vl, junk) ==
    IF vl < 32 THEN [ret |-> 0, out |-> out]
    ELSE DecodeSveLoop(in, in_off, out, out_off, 0, in_len \div vl, vl, junk)

-----
(* CPU capability detection *)

BASE64_CPU_UNKNOWN == 0
BASE64_CPU_NO_AVX512 == 1
BASE64_CPU_HAS_AVX512 == 2

Builds == {"x86_64", "arm64_sve", "arm64", "other"}

\* the answers of the host: CPUID leaf 0 EAX and leaf 7 ECX on x86-64,
\* the HWCAP_SVE bit and svcntb() on ARM64
NoHw == [max_leaf |-> 0, ecx7 |-> 0, hwcap_sve |-> FALSE, svcntb |-> 0]
HwOf(b) ==
    IF b = "x86_64"
    THEN {[NoHw EXCEPT !.max_leaf = l, !.ecx7 = e] :
              l \in {6, 7}, e \in {0, 2}}
    ELSE IF b = "arm64_sve"
    THEN {NoHw} \cup {[NoHw EXCEPT !.hwcap_sve = TRUE, !.svcntb = v] : v \in {16, 32, 64}}
    ELSE IF b = "arm64"
    THEN {NoHw, [NoHw EXCEPT !.hwcap_sve = TRUE, !.svcntb = 32]}
    ELSE {NoHw}

\* _base64_init_cpu_features() taking any set bit of ECX for AVX-512 VBMI
base64_init_cpu_features_any_bit(b, h, features, sve_vl) ==
    IF b = "x86_64"
    THEN IF features # BASE64_CPU_UNKNOWN THEN << features, sve_vl >>
         ELSE LET has_avx512vbmi == IF h.max_leaf >= 7 THEN h.ecx7 ELSE 0
              IN  << IF has_avx512vbmi # 0 THEN BASE64_CPU_HAS_AVX512
                     ELSE BASE64_CPU_NO_AVX512, sve_vl >>
    ELSE IF b = "arm64_sve"
    THEN IF sve_vl # 0 THEN << features, sve_vl >>
         ELSE IF h.hwcap_sve THEN << features, h.svcntb >>
         ELSE << features, sve_vl >>
    ELSE << features, sve_vl >>

\* _base64_init_cpu_features() of the build: the new <<features, sve_vl>>
base64_init_cpu_features(b, h, features, sve_vl) ==
    IF b = "x86_64"
    THEN IF features # BASE64_CPU_UNKNOWN THEN << features, sve_vl >>
         ELSE LET has_avx512vbmi == IF h.max_leaf >= 7 THEN (h.ecx7 \div 2) % 2 ELSE 0
              IN  << IF has_avx512vbmi # 0 THEN BASE64_CPU_HAS_AVX512
                     ELSE BASE64_CPU_NO_AVX512, sve_vl >>
    ELSE IF b = "arm64_sve"
    THEN IF sve_vl # 0 THEN << features, sve_vl >>
         ELSE IF h.hwcap_sve THEN << features, h.svcntb >>
         ELSE << features, sve_vl >>
    ELSE << features, sve_vl >>

\* base64_has_avx512vbmi() taking "not yet checked" for present
base64_has_avx512vbmi_unless_absent(b, features) ==
    IF b = "x86_64" THEN features # BASE64_CPU_NO_AVX512 ELSE FALSE

base64_has_avx512vbmi(b, features) ==
    IF b = "x86_64" THEN features = BASE64_CPU_HAS_AVX512 ELSE FALSE

base64_has_sve256(b, sve_vl) ==
    IF b \in {"arm64_sve", "arm64"} THEN sve_vl >= 32 ELSE FALSE

\* whether a call of _base64_init_cpu_features() gets past its "already
\* initialized" guard and queries the host (CPUID, or getauxval and svcntb)
InitQueriesHost(b, features, sve_vl) ==
    IF b = "x86_64" THEN features = BASE64_CPU_UNKNOWN
    ELSE IF b = "arm64_sve" THEN sve_vl = 0
    ELSE FALSE

\* a query that detected lazily: it would run _base64_init_cpu_features() first
CacheAfterLazyQuery(b, h, features, sve_vl) ==
    base64_init_cpu_features(b, h, features, sve_vl)

\* the cache <<features, sve_vl>> after base64_has_avx512vbmi() or
\* base64_has_sve256() returns: both only read it
CacheAfterQuery(b, h, features, sve_vl) == << features, sve_vl >>

-----------------------------------------------------------------------------
(* Scalar tail handling and scalar decoding (Modules/binascii.c) *)

\* the scalar encoder on in[in_off .. in_off + in_len): whole trios, then the
\* final partial group with its padding
ScalarEncode(in, in_off, in_len, out, out_off) ==
    LET n_trios == in_len \div 3
        left == in_len % 3
        body == EncodeTrios(in, in_off, out, out_off, 0, n_trios)
        t == in_off + n_trios * 3
        o == out_off + n_trios * 4
        b0 == in[t + 1]
        b1 == IF left = 2 THEN in[t + 2] ELSE 0
        tail == << b64_table[(b0 \div 4) + 1],
                   b64_table[((b0 % 4) * 16 + b1 \div 16) + 1],
                   IF left = 2 THEN b64_table[((b1 % 16) * 4) + 1] ELSE PadChar,
                   PadChar >>
    IN  IF left = 0 THEN [ret |-> in_len, out |-> body, out_len |-> n_trios * 4]
        ELSE [ret |-> in_len,
              out |-> Store(body, o, [k \in 0..3 |-> tail[k + 1]], 4),
              out_len |-> n_trios * 4 + 4]

\* the decode table applied to an input byte: a sextet, or -1
DecodeChar(c) == IF c < 128 THEN b64_decode_table[c + 1] ELSE -1

\* the bytes of the quartet at C offset off
DecodeQuartet(in, off) ==
    LET a == DecodeChar(in[off + 1])
        b == DecodeChar(in[off + 2])
        c == DecodeChar(in[off + 3])
        d == DecodeChar(in[off + 4])
    IN  << (a * 4 + b \div 16) % 256, (b * 16 + c \div 4) % 256, (c * 64 + d) % 256 >>

\* the scalar decoder on in[off .. end): whole quartets until the first
\* character outside the alphabet; a well-formed padded last group is consumed
RECURSIVE ScalarDecode(_, _, _, _, _)
ScalarDecode(in, off, end, out, o) ==
    IF end - off < 4
    THEN LET bad == {j \in off..(end - 1) : DecodeChar(in[j + 1]) < 0}
         IN  [ret |-> off, out |-> out, out_len |-> o,
              status |-> IF bad = {} THEN "OK"
                         ELSE IF in[(CHOOSE j \in bad : \A k \in bad : j <= k) + 1] = PadChar
                              THEN "PADDING" ELSE "INVALID_CHAR"]
    ELSE LET bad == {j \in 0..3 : DecodeChar(in[off + j + 1]) < 0}
             first == CHOOSE j \in bad : \A k \in bad : j <= k
             q == DecodeQuartet(in, off)
         IN  IF bad = {}
             THEN ScalarDecode(in, off + 4, end,
                               Store(out, o, [k \in 0..2 |-> q[k + 1]], 3), o + 3)
             ELSE IF in[off + first + 1] # PadChar
             THEN [ret |-> off, out |-> out, out_len |-> o, status |-> "INVALID_CHAR"]
             ELSE IF first = 2 /\ in[off + 4] = PadChar
             THEN [ret |-> off + 4, out_len |-> o + 1, status |-> "PADDING",
                   out |-> Store(out, o,
                       [k \in 0..0 |-> (DecodeChar(in[off + 1]) * 4
                                        + DecodeChar(in[off + 2]) \div 16) % 256], 1)]
             ELSE IF first = 3
             THEN [ret |-> off + 4, out_len |-> o + 2, status |-> "PADDING",
                   out |-> Store(out, o,
                       [k \in 0..1 |->
                           IF k = 0
                           THEN (DecodeChar(in[off + 1]) * 4
                                 + DecodeChar(in[off + 2]) \div 16) % 256
                           ELSE (DecodeChar(in[off + 2]) * 16
                                 + DecodeChar(in[off + 3]) \div 4) % 256], 2)]
             ELSE [ret |-> off, out |-> out, out_len |-> o, status |-> "PADDING"]

-----------------------------------------------------------------------------
(* Tiered calls: fastest tier first, the scalar kernel last *)

Tiers(b) ==
    IF b = "x86_64" THEN << "avx512", "scalar" >>
    ELSE IF b = "arm64_sve" THEN << "sve", "neon", "scalar" >>
    ELSE IF b = "arm64" THEN << "neon", "scalar" >>
    ELSE << "scalar" >>

\* whether the tier's capability is present
TierPresent(t, b, features, sve_vl) ==
    IF t = "avx512" THEN base64_has_avx512vbmi(b, features)
    ELSE IF t = "sve" THEN base64_has_sve256(b, sve_vl)
    ELSE TRUE

\* the smallest remainder the tier's kernel processes at least one block of
EncodeBlock(t, vl) ==
    IF t = "avx512" THEN 48
    ELSE IF t = "sve" THEN (vl \div 4) * 3
    ELSE IF t = "neon" THEN 12
    ELSE 0
DecodeBlock(t, vl) ==
    IF t = "avx512" THEN 64
    ELSE IF t = "sve" THEN vl
    ELSE IF t = "neon" THEN 16
    ELSE 0

\* one past the highest offset of in the tier's encode kernel loads, for a
\* remainder of rem bytes at offset p (p itself when it loads nothing): each
\* block is loaded with one full-width vector load
EncodeReadEnd(t, p, rem, vl) ==
    IF t = "avx512"
    THEN IF rem \div 48 = 0 THEN p ELSE p + (rem \div 48 - 1) * 48 + 64
    ELSE IF t = "sve"
    THEN IF vl < 32 \/ rem \div ((vl \div 4) * 3) = 0 THEN p
         ELSE p + (rem \div ((vl \div 4) * 3) - 1) * ((vl \div 4) * 3) + vl
    ELSE IF t = "neon"
    THEN IF rem \div 12 = 0 THEN p ELSE p + (rem \div 12 - 1) * 12 + 16
    ELSE p

\* the same for the tier's decode kernel, which returned consumed: the blocks
\* it accepted and the block it stopped at, each loaded whole
DecodeReadEnd(t, p, rem, vl, consumed) ==
    LET block == DecodeBlock(t, vl)
    IN  IF t = "scalar" \/ (t = "sve" /\ vl < 32) \/ rem \div block = 0 THEN p
        ELSE IF consumed \div block < rem \div block
        THEN p + (consumed \div block + 1) * block
        ELSE p + consumed

\* one tier of an encode call on the unconsumed remainder: [ret, out, out_len]
EncodeTier(t, in, p, out, o, cp, vl, junk) ==
    IF t = "scalar" THEN ScalarEncode(in, p, Len(in) - p, out, o)
    ELSE With(IF t = "avx512"
              THEN base64_encode_avx512vbmi(in, p, Len(in) - p, out, o, junk)
              ELSE IF t = "sve"
              THEN base64_encode_sve(in, p, Len(in) - p, out, o, vl, junk)
              ELSE base64_encode_neon(in, p, Len(in) - p, out, o, junk),
              LAMBDA r : [ret |-> r.ret, out |-> r.out, out_len |-> (r.ret \div 3) * 4])

\* one tier of a decode call on the unconsumed remainder: [ret, out, out_len, status]
DecodeTier(t, in, p, out, o, cp, vl, junk) ==
    IF t = "scalar"
    THEN With(ScalarDecode(in, p, Len(in), out, o),
              LAMBDA s : [ret |-> s.ret - p, out |-> s.out, out_len |-> s.out_len - o,
                          status |-> s.status])
    ELSE With(IF t = "avx512"
              THEN base64_decode_avx512vbmi(in, p, Len(in) - p, out, o, cp)
              ELSE IF t = "sve"
              THEN base64_decode_sve(in, p, Len(in) - p, out, o, vl, junk)
              ELSE base64_decode_neon(in, p, Len(in) - p, out, o),
              LAMBDA r : [ret |-> r.ret, out |-> r.out, out_len |-> (r.ret \div 4) * 3,
                          status |-> "OK"])

-----------------------------------------------------------------------------
(* Inputs *)

Seeds == {(k * 43) % 256 : k \in 0..(NSeeds - 1)}
Strides == {0, 1, 37, 101, 255}
JunkBytes == {0, 255}

BytePattern(seed, stride, n) == [k \in 1..n |-> (seed + (k - 1) * stride) % 256]
TextPattern(seed, stride, n) ==
    [k \in 1..n |-> b64_table[((seed + (k - 1) * stride) % 64) + 1]]
\* text with the byte d at C offset p
Defect(text, p, d) == [k \in 1..Len(text) |-> IF k = p + 1 THEN d ELSE text[k]]

\* "Man" repeated
ManPattern(n) == [k \in 1..n |-> << 77, 97, 110 >>[((k - 1) % 3) + 1]]

\* bytes outside the alphabet tried at every position of a block
DefectBytes == {PadChar, 35, 32, 64, 91, 128, 193, 255}

\* blocks of n bytes, and blocks of m characters clean or with one defect
BlockInputs(n, m) ==
    {BytePattern(s, d, n) : s \in Seeds, d \in Strides}
    \cup {ManPattern(n)}
    \cup {TextPattern(s, d, m) : s \in Seeds, d \in Strides}
    \cup {Defect(TextPattern(5, 7, m), p, d) : p \in 0..(m - 1), d \in DefectBytes}
    \cup {Defect(TextPattern(5, 7, m), (k * 21) % m, d) :
              k \in 0..(NDefectPos - 1), d \in 0..255}

NoPlain == << Untouched >>

\* the state before any call, for the given build, copies and inputs
Idle(b, copies, inputs) ==
    /\ build = b
    /\ copy \in copies
    /\ in_buf \in inputs
    /\ out_buf = << >>
    /\ plain = NoPlain
    /\ op = "idle"
    /\ ret = 0
    /\ tier = 1
    /\ pos = 0
    /\ out_len = 0
    /\ status = "OK"
    /\ ranges = << >>
    /\ read_end = 0
    /\ detect_calls = 0
    /\ detect_limit = 1
    /\ hw_queries = 0
    /\ threads = << >>
    /\ heap = << >>

-----------------------------------------------------------------------------
(* The AVX-512 block kernels applied to one block *)

InitAvx512 ==
    /\ Idle("x86_64", {"header", "part_000"}, BlockInputs(48, 64))
    /\ hw = [NoHw EXCEPT !.max_leaf = 7, !.ecx7 = 2]
    /\ base64_cpu_features = BASE64_CPU_HAS_AVX512
    /\ base64_sve_vl = 0

Encode48Avx512 ==
    /\ op = "idle"
    /\ Len(in_buf) = 48
    /\ \E junk \in JunkBytes :
           out_buf' = base64_encode_48_avx512(in_buf, 0, FreshOut(64), 0, junk)
    /\ op' = "encode_48_avx512"
    /\ ret' = 0
    /\ UNCHANGED << detect_vars, conc_vars, trace_vars, build, copy, hw,
                    base64_cpu_features, base64_sve_vl, in_buf,
                    plain, tier, pos, out_len, status >>

Decode64Avx512 ==
    /\ op = "idle"
    /\ Len(in_buf) = 64
    /\ With(base64_decode_64_avx512(in_buf, 0, FreshOut(48), 0, copy), LAMBDA r :
           /\ out_buf' = r.out
           /\ ret' = r.ret)
    /\ op' = "decode_64_avx512"
    /\ UNCHANGED << detect_vars, conc_vars, trace_vars, build, copy, hw,
                    base64_cpu_features, base64_sve_vl, in_buf,
                    plain, tier, pos, out_len, status >>

NextAvx512 == Encode48Avx512 \/ Decode64Avx512

SpecAvx512 == InitAvx512 /\ [][NextAvx512]_vars

\* the bytes the scalar kernel decodes the quartet at C offset off to
ScalarQuartet(in, off) ==
    LET a == Sextet(in[off + 1])
        b == Sextet(in[off + 2])
        c == Sextet(in[off + 3])
        d == Sextet(in[off + 4])
    IN  << a * 4 + b \div 16, (b * 16 + c \div 4) % 256, (c * 64 + d) % 256 >>

AllAlpha(buf) == \A k \in 1..Len(buf) : IsAlpha(buf[k])

\* C2: for every 64-character block of alphabet characters, with either copy
\* of the source, base64_decode_64_avx512 returns 48 and writes, for each
\* quartet n, the three bytes (a<<2)|(b>>4), (b<<4)|(c>>2), (c<<6)|d in order.
C2_Avx512DecodeAgreesScalar ==
    (op = "decode_64_avx512" /\ AllAlpha(in_buf)) =>
        /\ ret = 48
        /\ \A n \in 0..15 :
               << out_buf[3 * n + 1], out_buf[3 * n + 2], out_buf[3 * n + 3] >>
                   = ScalarQuartet(in_buf, 4 * n)

\* C3: a 64-character block holding a byte >= 128 makes
\* base64_decode_64_avx512 return -1 and write nothing.
C3_Avx512RejectsNonAscii ==
    (op = "decode_64_avx512" /\ \E k \in 1..64 : in_buf[k] >= 128) =>
        /\ ret = -1
        /\ out_buf = FreshOut(48)

\* C5: for every 48-byte block, base64_encode_48_avx512 writes for each
\* triplet n the four table characters of combined = b0<<16 | b1<<8 | b2,
\* which is what base64_encode_trio writes.
C5_Avx512EncodeAgreesScalar ==
    op = "encode_48_avx512" =>
        \A n \in 0..15 :
            LET combined == in_buf[3 * n + 1] * 65536 + in_buf[3 * n + 2] * 256
                            + in_buf[3 * n + 3]
                q == << out_buf[4 * n + 1], out_buf[4 * n + 2],
                        out_buf[4 * n + 3], out_buf[4 * n + 4] >>
            IN  /\ q = << b64_table[((combined \div 262144) % 64) + 1],
                          b64_table[((combined \div 4096) % 64) + 1],
                          b64_table[((combined \div 64) % 64) + 1],
                          b64_table[(combined % 64) + 1] >>
                /\ q = base64_encode_trio(in_buf, 3 * n)

C5_Witness ==
    /\ op = "encode_48_avx512"
    /\ in_buf = BytePattern(43, 37, 48)
    /\ out_buf[1] = b64_table[(43 \div 4) + 1]

-----------------------------------------------------------------------------
(* The NEON block kernels applied to one block *)

InitNeon ==
    /\ Idle("arm64", {"header"}, BlockInputs(12, 16))
    /\ hw = NoHw
    /\ base64_cpu_features = BASE64_CPU_UNKNOWN
    /\ base64_sve_vl = 0

Encode12Neon ==
    /\ op = "idle"
    /\ Len(in_buf) = 12
    /\ \E junk \in JunkBytes :
           out_buf' = base64_encode_12_neon(in_buf, 0, FreshOut(16), 0, junk)
    /\ op' = "encode_12_neon"
    /\ ret' = 0
    /\ UNCHANGED << detect_vars, conc_vars, trace_vars, build, copy, hw,
                    base64_cpu_features, base64_sve_vl, in_buf,
                    plain, tier, pos, out_len, status >>

Decode16Neon ==
    /\ op = "idle"
    /\ Len(in_buf) = 16
    /\ With(base64_decode_16_neon(in_buf, 0, FreshOut(12), 0), LAMBDA r :
           /\ out_buf' = r.out
           /\ ret' = r.ret)
    /\ op' = "decode_16_neon"
    /\ UNCHANGED << detect_vars, conc_vars, trace_vars, build, copy, hw,
                    base64_cpu_features, base64_sve_vl, in_buf,
                    plain, tier, pos, out_len, status >>

NextNeon == Encode12Neon \/ Decode16Neon

SpecNeon == InitNeon /\ [][NextNeon]_vars

\* C6: for every 12-byte block base64_encode_12_neon writes the 16 characters
\* of four scalar trio encodings, in order, and its arithmetic mapping sends
\* every index 0..63 to the character the encode table holds for it.
C6_NeonEncodeAgreesScalar ==
    op = "encode_12_neon" =>
        /\ \A n \in 0..3 :
               << out_buf[4 * n + 1], out_buf[4 * n + 2],
                  out_buf[4 * n + 3], out_buf[4 * n + 4] >>
                   = base64_encode_trio(in_buf, 3 * n)
        /\ \A g \in 0..3 :
               NeonAscii([l \in 0..15 |-> 16 * g + l])
                   = [l \in 0..15 |-> b64_table[16 * g + l + 1]]

C6_Witness ==
    /\ op = "encode_12_neon"
    /\ in_buf = BytePattern(215, 101, 12)
    /\ out_buf[16] = b64_table[(in_buf[12] % 64) + 1]

\* C7: base64_decode_16_neon returns 12 and writes the scalar kernel's 12
\* bytes exactly when all 16 bytes are alphabet characters; otherwise the
\* classification of every offending byte is a sentinel >= 64, the function
\* returns -1 and writes nothing.
C7_NeonDecodeAcceptsExactlyClean ==
    op = "decode_16_neon" =>
        IF AllAlpha(in_buf)
        THEN /\ ret = 12
             /\ \A n \in 0..3 :
                    << out_buf[3 * n + 1], out_buf[3 * n + 2], out_buf[3 * n + 3] >>
                        = ScalarQuartet(in_buf, 4 * n)
        ELSE /\ ret = -1
             /\ out_buf = FreshOut(12)
             /\ With(NeonValues(Vec(in_buf)), LAMBDA values :
                    \A k \in 1..16 : ~IsAlpha(in_buf[k]) => values[k - 1] >= 64)

C7_Witness ==
    /\ op = "decode_16_neon"
    /\ ret = -1
    /\ in_buf[16] >= 128
    /\ \A k \in 1..15 : IsAlpha(in_buf[k])

-----------------------------------------------------------------------------
(* The SVE kernels, for vector lengths of 32 and 64 bytes *)

SveInputs(vl) ==
    LET bpi == (vl \div 4) * 3
    IN  {BytePattern(s, d, n) :
             s \in Seeds, d \in Strides, n \in {bpi, bpi + 1, 2 * bpi + 5}}
        \cup {ManPattern(bpi)}
        \cup {TextPattern(s, d, n) :
                  s \in Seeds, d \in {1, 37}, n \in {vl, 2 * vl + 5, 3 * vl}}
        \cup {Defect(TextPattern(5, 7, 2 * vl + 5), p, d) :
                  p \in 0..(2 * vl + 4), d \in {PadChar, 35, 193}}
        \cup {Defect(TextPattern(5, 7, vl), (k * 21) % vl, d) :
                  k \in 0..(NDefectPos - 1), d \in 0..255}

InitSve ==
    /\ \E vl \in {32, 64} :
           /\ base64_sve_vl = vl
           /\ hw = [NoHw EXCEPT !.hwcap_sve = TRUE, !.svcntb = vl]
           /\ Idle("arm64_sve", {"header"}, SveInputs(vl))
    /\ base64_cpu_features = BASE64_CPU_UNKNOWN

\* the output buffer the caller sizes for an encode / a decode of n input bytes
EncodeOutSize(n) == 4 * ((n + 2) \div 3)
DecodeOutSize(n) == 3 * ((n + 3) \div 4)

EncodeSve ==
    /\ op = "idle"
    /\ \E junk \in JunkBytes :
           With(base64_encode_sve(in_buf, 0, Len(in_buf),
                                  FreshOut(EncodeOutSize(Len(in_buf))), 0,
                                  base64_sve_vl, junk), LAMBDA r :
               /\ out_buf' = r.out
               /\ ret' = r.ret)
    /\ op' = "encode_sve"
    /\ UNCHANGED << detect_vars, conc_vars, trace_vars, build, copy, hw,
                    base64_cpu_features, base64_sve_vl, in_buf,
                    plain, tier, pos, out_len, status >>

DecodeSve ==
    /\ op = "idle"
    /\ \E junk \in (IF base64_sve_vl > 64 THEN JunkBytes ELSE {0}) :
           With(base64_decode_sve(in_buf, 0, Len(in_buf),
                                  FreshOut(DecodeOutSize(Len(in_buf))), 0,
                                  base64_sve_vl, junk), LAMBDA r :
               /\ out_buf' = r.out
               /\ ret' = r.ret)
    /\ op' = "decode_sve"
    /\ UNCHANGED << detect_vars, conc_vars, trace_vars, build, copy, hw,
                    base64_cpu_features, base64_sve_vl, in_buf,
                    plain, tier, pos, out_len, status >>

NextSve == EncodeSve \/ DecodeSve

SpecSve == InitSve /\ [][NextSve]_vars

\* C8: for VL = 32 or 64 and every input of at least (VL/4)*3 bytes, the
\* characters base64_encode_sve writes for the bytes it reports consumed are
\* the scalar encoding of those bytes, trio by trio.
C8_SveEncodeAgreesScalar ==
    (op = "encode_sve" /\ Len(in_buf) >= (base64_sve_vl \div 4) * 3) =>
        \A n \in 0..(ret \div 3 - 1) :
            << out_buf[4 * n + 1], out_buf[4 * n + 2],
               out_buf[4 * n + 3], out_buf[4 * n + 4] >>
                = base64_encode_trio(in_buf, 3 * n)

\* the first whole block of k characters of buf that holds a character outside
\* the alphabet, or the number of whole blocks when none does
FirstBadBlock(buf, k) ==
    LET n == Len(buf) \div k
        bad == {i \in 0..(n - 1) : \E j \in (i * k + 1)..((i + 1) * k) : ~IsAlpha(buf[j])}
    IN  IF bad = {} THEN n ELSE CHOOSE i \in bad : \A j \in bad : i <= j

\* C9: for VL = 32 or 64, base64_decode_sve returns i*VL, i the first
\* iteration holding '=' or a non-alphabet byte (n_iters when none); the
\* iterations before i have stored (VL/4)*3 bytes each, equal to the scalar
\* decoding of their characters, and nothing is stored for iteration i.
C9_SveDecodeDefersToScalar ==
    op = "decode_sve" =>
        LET vl == base64_sve_vl
            i == FirstBadBlock(in_buf, vl)
        IN  /\ ret = i * vl
            /\ \A q \in 0..(i * (vl \div 4) - 1) :
                   << out_buf[3 * q + 1], out_buf[3 * q + 2], out_buf[3 * q + 3] >>
                       = ScalarQuartet(in_buf, 4 * q)
            /\ \A k \in (i * (vl \div 4) * 3 + 1)..Len(out_buf) : out_buf[k] = Untouched

C9_Witness ==
    /\ op = "decode_sve"
    /\ base64_sve_vl = 32
    /\ Len(in_buf) = 69
    /\ ret = 32
    /\ in_buf[40] = PadChar
    /\ out_buf[24] # Untouched
    /\ out_buf[25] = Untouched

-----------------------------------------------------------------------------
(* The codec as a whole: detection, then encode and decode calls that run    *)
(* their tiers in descending order                                           *)

\* the byte buffers handed to encode: every length 0..MaxLen
EncodeInputs ==
    {BytePattern(0, 255, n) : n \in 0..MaxLen}
    \cup {BytePattern(43, 37, n) : n \in 0..MaxLen}
    \cup {ManPattern(n) : n \in 0..MaxLen}

\* "AAAA#AAA" and "SGVsbG8="
TextInvalid == << 65, 65, 65, 65, 35, 65, 65, 65 >>
TextHello == << 83, 71, 86, 115, 98, 71, 56, 61 >>

\* the texts handed to decode: clean, or with one character outside the alphabet
DecodeLens == {0, 3, 4, 7, 16, 21, 32, 64, 68}
DecodeInputs ==
    {TextInvalid, TextHello}
    \cup {TextPattern(5, 7, n) : n \in DecodeLens}
    \cup UNION {{Defect(TextPattern(5, 7, n), p, d) :
                     p \in {0, 2, 6, 17, 33, 66} \cap 0..(n - 1),
                     d \in {PadChar, 35, 193}} : n \in DecodeLens}

\* process start: the cache as its initializers leave it, no call made yet; the
\* process will call _base64_init_cpu_features() limit times
ProcessStartOn(limit, Hosts(_)) ==
    /\ build \in Builds
    /\ copy \in (IF build = "x86_64" THEN {"header", "part_000"} ELSE {"header"})
    /\ hw \in Hosts(build)
    /\ base64_cpu_features = BASE64_CPU_UNKNOWN
    /\ base64_sve_vl = 0
    /\ in_buf = << >>
    /\ out_buf = << >>
    /\ plain = NoPlain
    /\ op = "idle"
    /\ ret = 0
    /\ tier = 1
    /\ pos = 0
    /\ out_len = 0
    /\ status = "OK"
    /\ ranges = << >>
    /\ read_end = 0
    /\ detect_calls = 0
    /\ detect_limit = limit
    /\ hw_queries = 0
    /\ threads = << >>
    /\ heap = << >>

ProcessStart(limit) == ProcessStartOn(limit, HwOf)

\* _base64_init_cpu_features(), called from module init

\* _base64_init_cpu_features() is called once, from module init
Init == ProcessStart(1)

Quiescent == op \in {"idle", "has_avx512vbmi", "has_sve256"}

Detect ==
    /\ Quiescent
    /\ detect_calls < detect_limit
    /\ With(base64_init_cpu_features(build, hw, base64_cpu_features, base64_sve_vl),
            LAMBDA r : /\ base64_cpu_features' = r[1]
                       /\ base64_sve_vl' = r[2])
    /\ detect_calls' = detect_calls + 1
    /\ hw_queries' = hw_queries
                      + (IF InitQueriesHost(build, base64_cpu_features, base64_sve_vl)
                         THEN 1 ELSE 0)
    /\ UNCHANGED << conc_vars, trace_vars, detect_limit, build, copy, hw, in_buf,
                    out_buf, plain, op, ret, tier, pos, out_len, status >>

\* base64_has_avx512vbmi() is called outside any encode or decode call
HasAvx512vbmi ==
    /\ Quiescent
    /\ op' = "has_avx512vbmi"
    /\ ret' = (IF base64_has_avx512vbmi(build, base64_cpu_features) THEN 1 ELSE 0)
    /\ With(CacheAfterQuery(build, hw, base64_cpu_features, base64_sve_vl),
            LAMBDA r : /\ base64_cpu_features' = r[1]
                       /\ base64_sve_vl' = r[2])
    /\ UNCHANGED << detect_vars, conc_vars, trace_vars, build, copy, hw, in_buf,
                    out_buf, plain, tier, pos, out_len, status >>

\* base64_has_sve256() is called outside any encode or decode call
HasSve256 ==
    /\ Quiescent
    /\ op' = "has_sve256"
    /\ ret' = (IF base64_has_sve256(build, base64_sve_vl) THEN 1 ELSE 0)
    /\ With(CacheAfterQuery(build, hw, base64_cpu_features, base64_sve_vl),
            LAMBDA r : /\ base64_cpu_features' = r[1]
                       /\ base64_sve_vl' = r[2])
    /\ UNCHANGED << detect_vars, conc_vars, trace_vars, build, copy, hw, in_buf,
                    out_buf, plain, tier, pos, out_len, status >>

\* encode(input, length) is called with an output buffer of 4 * ceil(length / 3)
StartEncode ==
    /\ Quiescent
    /\ \E b \in EncodeInputs :
           /\ in_buf' = b
           /\ out_buf' = FreshOut(EncodeOutSize(Len(b)))
    /\ plain' = NoPlain
    /\ op' = "encode"
    /\ tier' = 1
    /\ pos' = 0
    /\ out_len' = 0
    /\ ret' = 0
    /\ status' = "OK"
    /\ ranges' = << >>
    /\ read_end' = 0
    /\ UNCHANGED << detect_vars, conc_vars, build, copy, hw, base64_cpu_features, base64_sve_vl >>

\* decode(input, length) is called on a text
StartDecode ==
    /\ Quiescent
    /\ \E t \in DecodeInputs :
           /\ in_buf' = t
           /\ out_buf' = FreshOut(DecodeOutSize(Len(t)))
    /\ plain' = NoPlain
    /\ op' = "decode"
    /\ tier' = 1
    /\ pos' = 0
    /\ out_len' = 0
    /\ ret' = 0
    /\ status' = "OK"
    /\ ranges' = << >>
    /\ read_end' = 0
    /\ UNCHANGED << detect_vars, conc_vars, build, copy, hw, base64_cpu_features, base64_sve_vl >>

\* decode is called on the text a finished encode call produced
StartRoundTrip ==
    /\ op = "encode_done"
    /\ plain' = in_buf
    /\ in_buf' = SubSeq(out_buf, 1, out_len)
    /\ out_buf' = FreshOut(DecodeOutSize(out_len))
    /\ op' = "decode"
    /\ tier' = 1
    /\ pos' = 0
    /\ out_len' = 0
    /\ ret' = 0
    /\ status' = "OK"
    /\ ranges' = << >>
    /\ read_end' = 0
    /\ UNCHANGED << detect_vars, conc_vars, build, copy, hw, base64_cpu_features, base64_sve_vl >>

\* the tier the call is at, and the block size of its kernel
CurrentTier == Tiers(build)[tier]
CurrentBlock == IF op = "encode" THEN EncodeBlock(CurrentTier, base64_sve_vl)
                ELSE DecodeBlock(CurrentTier, base64_sve_vl)

\* the call is at a fast tier it passes over: capability absent, or the
\* remainder shorter than one block
TierPassedOver ==
    /\ op \in {"encode", "decode"}
    /\ tier \in 1..Len(Tiers(build))
    /\ CurrentTier # "scalar"
    /\ \/ ~TierPresent(CurrentTier, build, base64_cpu_features, base64_sve_vl)
       \/ Len(in_buf) - pos < CurrentBlock

\* the call is at a tier it runs
TierSelected ==
    /\ op \in {"encode", "decode"}
    /\ tier \in 1..Len(Tiers(build))
    /\ TierPresent(CurrentTier, build, base64_cpu_features, base64_sve_vl)
    /\ CurrentTier = "scalar" \/ Len(in_buf) - pos >= CurrentBlock

\* SELECT_TIER: a tier whose capability is absent, or whose block is longer
\* than the remainder, is passed over
SkipTier ==
    /\ TierPassedOver
    /\ tier' = tier + 1
    /\ UNCHANGED << detect_vars, conc_vars, trace_vars, build, copy, hw,
                    base64_cpu_features, base64_sve_vl, in_buf,
                    out_buf, plain, op, ret, pos, out_len, status >>

\* RUN_KERNEL: the selected tier runs on the unconsumed remainder and reports
\* what it consumed; the scalar kernel ends the call
RunTier ==
    /\ TierSelected
    /\ LET t == Tiers(build)[tier]
       IN  /\ \E junk \in JunkBytes :
                  With(IF op = "encode"
                       THEN EncodeTier(t, in_buf, pos, out_buf, out_len, copy,
                                       base64_sve_vl, junk)
                            @@ [status |-> "OK"]
                       ELSE DecodeTier(t, in_buf, pos, out_buf, out_len, copy,
                                       base64_sve_vl, junk),
                       LAMBDA r :
                           /\ out_buf' = r.out
                           /\ ret' = r.ret
                           /\ pos' = pos + r.ret
                           /\ out_len' = out_len + r.out_len
                           /\ status' = r.status
                           /\ ranges' = Append(ranges, [tier |-> t, from |-> pos,
                                                        to |-> pos + r.ret])
                           /\ read_end' =
                                  Max(read_end,
                                      IF op = "encode"
                                      THEN EncodeReadEnd(t, pos, Len(in_buf) - pos,
                                                         base64_sve_vl)
                                      ELSE DecodeReadEnd(t, pos, Len(in_buf) - pos,
                                                         base64_sve_vl, r.ret)))
           /\ IF t = "scalar"
              THEN /\ op' = (IF op = "encode" THEN "encode_done" ELSE "decode_done")
                   /\ tier' = tier
              ELSE /\ op' = op
                   /\ tier' = tier + 1
    /\ UNCHANGED << detect_vars, conc_vars, build, copy, hw, base64_cpu_features,
                    base64_sve_vl, in_buf, plain >>

Next ==
    \/ Detect
    \/ HasAvx512vbmi
    \/ HasSve256
    \/ StartEncode
    \/ StartDecode
    \/ StartRoundTrip
    \/ SkipTier
    \/ RunTier

Spec == Init /\ [][Next]_vars

\* the C offset of the first character of buf outside the alphabet
FirstBad(buf) ==
    CHOOSE j \in 0..(Len(buf) - 1) :
        /\ ~IsAlpha(buf[j + 1])
        /\ \A k \in 0..(j - 1) : IsAlpha(buf[k + 1])

\* the number of '=' at the end of the first n characters of buf
RECURSIVE TrailingPads(_, _)
TrailingPads(buf, n) ==
    IF n > 0 /\ buf[n] = PadChar THEN 1 + TrailingPads(buf, n - 1) ELSE 0

\* C1: for every byte buffer B of length 0..MaxLen and every capability
\* configuration, decoding the text encode(B) produced yields B and consumes
\* the whole text.
C1_RoundTrip ==
    (op = "decode_done" /\ plain # NoPlain) =>
        /\ pos = Len(in_buf)
        /\ SubSeq(out_buf, 1, out_len) = plain

\* C4: for every decode input that holds a padding or invalid character and
\* every capability configuration, the consumed count is a multiple of 4 and
\* never passes the end of the 4-character group holding the first such
\* character.
C4_InvalidCharBoundary ==
    (op = "decode_done" /\ \E k \in 1..Len(in_buf) : ~IsAlpha(in_buf[k])) =>
        /\ pos % 4 = 0
        /\ pos <= 4 * (FirstBad(in_buf) \div 4) + 4

\* C10: for every input length N and every capability configuration, encode
\* produces 4 * ceil(N / 3) characters, with 0, 2 or 1 trailing '=' when
\* N mod 3 is 0, 1 or 2, and no '=' anywhere before them.
C10_PaddingLaw ==
    op = "encode_done" =>
        LET n == Len(in_buf)
            pads == << 0, 2, 1 >>[(n % 3) + 1]
        IN  /\ out_len = 4 * ((n + 2) \div 3)
            /\ out_len = Len(out_buf)
            /\ TrailingPads(out_buf, out_len) = pads
            /\ \A k \in 1..(out_len - pads) : out_buf[k] # PadChar

C10_Witness ==
    /\ op = "encode_done"
    /\ build = "arm64"
    /\ Len(in_buf) = 49
    /\ in_buf[2] = 255
    /\ out_buf[67] = PadChar
    /\ out_buf[68] = PadChar
    /\ out_buf[66] # PadChar

-----------------------------------------------------------------------------
(* The dispatcher: partition of the input, gating of the tiers, termination *)

InCall == op \in {"encode", "decode"}
CallDone == op \in {"encode_done", "decode_done"}
Encoding == op \in {"encode", "encode_done"}

\* the position of tier t in the build's tier order
TierIndex(t) == CHOOSE i \in 1..Len(Tiers(build)) : Tiers(build)[i] = t

\* the output offset that goes with input offset x of whole groups
OutOf(x) == IF Encoding THEN (x \div 3) * 4 ELSE (x \div 4) * 3

\* C11: in every call the tiers run in strictly descending order, none twice;
\* the ranges they consumed start at 0, are contiguous and disjoint and stay
\* inside the input; and the output of every consumed range has been written.
C11_DispatcherPartition ==
    (InCall \/ CallDone) =>
        /\ \A i \in 1..Len(ranges) :
               /\ ranges[i].from = (IF i = 1 THEN 0 ELSE ranges[i - 1].to)
               /\ ranges[i].from <= ranges[i].to
               /\ ranges[i].to <= Len(in_buf)
               /\ \A k \in (OutOf(ranges[i].from) + 1)..
                           (IF ranges[i].tier = "scalar" THEN out_len
                            ELSE OutOf(ranges[i].to)) :
                      out_buf[k] # Untouched
        /\ \A i, j \in 1..Len(ranges) :
               i < j => TierIndex(ranges[i].tier) < TierIndex(ranges[j].tier)
        /\ pos = (IF ranges = << >> THEN 0 ELSE ranges[Len(ranges)].to)

C11_Witness ==
    /\ op = "encode_done"
    /\ build = "arm64_sve"
    /\ Len(in_buf) = 38
    /\ Len(ranges) = 3
    /\ ranges[1] = [tier |-> "sve", from |-> 0, to |-> 24]
    /\ ranges[2] = [tier |-> "neon", from |-> 24, to |-> 36]
    /\ ranges[3] = [tier |-> "scalar", from |-> 36, to |-> 38]

\* C12: a fast tier has run only with its cached capability present (AVX-512
\* flag HAS_AVX512, SVE vector length >= 32); with the capability absent or
\* unknown the query answers false and the call is served by the lower tiers.
C12_TierGating ==
    /\ \A i \in 1..Len(ranges) :
           /\ ranges[i].tier = "avx512" =>
                  base64_cpu_features = BASE64_CPU_HAS_AVX512
           /\ ranges[i].tier = "sve" => base64_sve_vl >= 32
    /\ (op = "has_avx512vbmi" /\ base64_cpu_features # BASE64_CPU_HAS_AVX512) => ret = 0
    /\ (op = "has_sve256" /\ base64_sve_vl < 32) => ret = 0
    /\ CallDone =>
           /\ (base64_cpu_features # BASE64_CPU_HAS_AVX512) =>
                  \A i \in 1..Len(ranges) : ranges[i].tier # "avx512"
           /\ base64_sve_vl < 32 => \A i \in 1..Len(ranges) : ranges[i].tier # "sve"

C12_Witness ==
    /\ op = "encode_done"
    /\ build = "x86_64"
    /\ hw.max_leaf = 7
    /\ hw.ecx7 = 2
    /\ base64_cpu_features = BASE64_CPU_UNKNOWN
    /\ Len(in_buf) = 48
    /\ Len(ranges) = 1
    /\ ranges[1] = [tier |-> "scalar", from |-> 0, to |-> 48]

\* C13: every call reaches DONE after finitely many tier transitions, the
\* scalar kernel last: a call in progress has taken tier - 1 transitions, has
\* a tier of the build left to visit and its next transition (pass the tier
\* over, or run it) is enabled;
\* the consumed count never passes the input length, and a finished encode has
\* consumed the whole input.
C13_Termination ==
    /\ InCall =>
           /\ tier <= Len(Tiers(build))
           /\ Len(ranges) < tier
           /\ pos >= 0
           /\ pos <= Len(in_buf)
           /\ TierPassedOver \/ TierSelected
    /\ CallDone =>
           /\ Len(ranges) <= Len(Tiers(build))
           /\ ranges[Len(ranges)].tier = "scalar"
    /\ op = "encode_done" => pos = Len(in_buf)

C13_Witness ==
    /\ op = "encode_done"
    /\ build = "arm64"
    /\ Len(in_buf) = 13
    /\ pos = 13
    /\ Len(ranges) = 2
    /\ ranges[1].to = 12

-----------------------------------------------------------------------------
(* The detector called repeatedly, with the queries between the calls *)

\* the hosts detection is studied on: on x86-64 also maximum leaves around 7
\* and ECX values with bits other than bit 1 set
DetectHw(b) ==
    HwOf(b) \cup (IF b = "x86_64"
                  THEN {[NoHw EXCEPT !.max_leaf = l, !.ecx7 = e] :
                            l \in {0, 6, 7, 8, 27}, e \in {0, 1, 2, 3, 5, 6}}
                  ELSE {})

InitDetect == ProcessStartOn(MaxDetect, DetectHw)

NextDetect ==
    \/ Detect
    \/ HasAvx512vbmi
    \/ HasSve256

SpecDetect == InitDetect /\ [][NextDetect]_vars

\* C14: on every build the capability state starts unknown; once the first
\* _base64_init_cpu_features() has returned it is terminal (present or absent,
\* never unknown), and later calls leave the cache as the first call left it.
C14_DetectLifecycle ==
    /\ detect_calls = 0 =>
           /\ base64_cpu_features = BASE64_CPU_UNKNOWN
           /\ base64_sve_vl = 0
    /\ detect_calls >= 1 =>
           /\ base64_cpu_features # BASE64_CPU_UNKNOWN
           /\ << base64_cpu_features, base64_sve_vl >>
                  = base64_init_cpu_features(build, hw, BASE64_CPU_UNKNOWN, 0)

\* C15: over any sequence of _base64_init_cpu_features() calls the host is
\* queried at most once, also when the first probe found the feature absent.
C15_ProbeOnce ==
    hw_queries <= 1

\* C16: base64_has_avx512vbmi(), base64_has_sve256() and the kernels leave the
\* capability cache unchanged: only _base64_init_cpu_features() writes it.
C16_CacheWrittenByDetectOnly ==
    [][(base64_cpu_features' # base64_cpu_features \/ base64_sve_vl' # base64_sve_vl)
           => detect_calls' = detect_calls + 1]_vars

C16_Witness ==
    /\ op = "decode_done"
    /\ build = "x86_64"
    /\ detect_calls = 1
    /\ base64_cpu_features = BASE64_CPU_HAS_AVX512
    /\ Len(ranges) = 2
    /\ ranges[1].tier = "avx512"

-----------------------------------------------------------------------------
(* Calls made by several threads at the same time, after detection *)

\* the calls a thread may make
ConcCalls ==
    { [kind |-> "encode", input |-> BytePattern(43, 37, 49)],
      [kind |-> "decode", input |-> TextPattern(5, 7, 68)],
      [kind |-> "decode", input |-> Defect(TextPattern(5, 7, 32), 17, 35)] }

\* the hosts the threads run on: each build with its fast tiers available
ConcHw(b) ==
    IF b = "x86_64" THEN {[NoHw EXCEPT !.max_leaf = 7, !.ecx7 = 2]}
    ELSE IF b = "arm64_sve" THEN {[NoHw EXCEPT !.hwcap_sve = TRUE, !.svcntb = 32]}
    ELSE {NoHw}

\* the size of the output buffer the caller of call c allocates
OutCap(c) ==
    IF c.kind = "encode" THEN EncodeOutSize(Len(c.input))
    ELSE DecodeOutSize(Len(c.input))

\* cells after the last buffer that belong to no call
GuardLen == 16

\* The memory of the process holds, in address order: the input of thread 1,
\* the output buffers of threads n, n-1, .., 1, the inputs of threads 2, .., n,
\* and guard cells.  The buffers are disjoint and adjacent, so a load or store
\* that leaves its buffer lands in a neighbour's.
RECURSIVE OutBase(_, _)
OutBase(ts, i) ==
    IF i = Len(ts) THEN Len(ts[1].input)
    ELSE OutBase(ts, i + 1) + OutCap(ts[i + 1])

RECURSIVE InBase(_, _)
InBase(ts, i) ==
    IF i = 1 THEN 0
    ELSE IF i = 2 THEN OutBase(ts, 1) + OutCap(ts[1])
    ELSE InBase(ts, i - 1) + Len(ts[i - 1].input)

HeapLen(ts) == InBase(ts, Len(ts)) + Len(ts[Len(ts)].input) + GuardLen

\* the memory when the calls start: the inputs in place, every other cell
\* not yet written
HeapInit(ts) ==
    [a \in 1..HeapLen(ts) |->
        IF \E i \in 1..Len(ts) : a - 1 >= InBase(ts, i)
                                  /\ a - 1 < InBase(ts, i) + Len(ts[i].input)
        THEN LET i == CHOOSE i \in 1..Len(ts) :
                          a - 1 >= InBase(ts, i)
                          /\ a - 1 < InBase(ts, i) + Len(ts[i].input)
             IN  ts[i].input[a - InBase(ts, i)]
        ELSE Untouched]

InitConc ==
    /\ ProcessStart(1)
    /\ hw \in ConcHw(build)

\* after detection completed, every thread enters its call
StartThreads ==
    /\ op = "idle"
    /\ detect_calls = 1
    /\ \E cs \in [1..NThreads -> ConcCalls] :
           /\ threads' = [i \in 1..NThreads |->
                             [kind |-> cs[i].kind, input |-> cs[i].input, tier |-> 1,
                              pos |-> 0, out_len |-> 0, status |-> "OK", done |-> FALSE]]
           /\ heap' = HeapInit(threads')
    /\ op' = "concurrent"
    /\ UNCHANGED << detect_vars, trace_vars, build, copy, hw, base64_cpu_features,
                    base64_sve_vl, in_buf, out_buf, plain, ret, tier, pos, out_len,
                    status >>

\* the block size of the tier thread th is at
ThreadTier(th) == Tiers(build)[th.tier]
ThreadBlock(th) == IF th.kind = "encode" THEN EncodeBlock(ThreadTier(th), base64_sve_vl)
                   ELSE DecodeBlock(ThreadTier(th), base64_sve_vl)

\* thread i passes over the fast tier it is at
ThreadSkipTier ==
    /\ op = "concurrent"
    /\ \E i \in 1..Len(threads) :
           /\ ~threads[i].done
           /\ ThreadTier(threads[i]) # "scalar"
           /\ \/ ~TierPresent(ThreadTier(threads[i]), build, base64_cpu_features,
                              base64_sve_vl)
              \/ Len(threads[i].input) - threads[i].pos < ThreadBlock(threads[i])
           /\ threads' = [threads EXCEPT ![i].tier = @ + 1]
    /\ UNCHANGED << detect_vars, trace_vars, heap, build, copy, hw, base64_cpu_features,
                    base64_sve_vl, in_buf, out_buf, plain, op, ret, tier, pos, out_len,
                    status >>

\* what a load past the end of the input at in[0 .. end) finds: the cell after
\* it, which another thread may have written, or any byte if none has
JunkAfter(mem, end) ==
    IF end < Len(mem) /\ mem[end + 1] # Untouched THEN {mem[end + 1]} ELSE JunkBytes

\* thread i runs the kernel of the tier it is at, on the shared memory: it
\* reads its input where it lies and stores through its output pointer
ThreadRunTier ==
    /\ op = "concurrent"
    /\ \E i \in 1..Len(threads) :
           LET th == threads[i]
               t == ThreadTier(th)
               in_end == InBase(threads, i) + Len(th.input)
           IN  /\ ~th.done
               /\ TierPresent(t, build, base64_cpu_features, base64_sve_vl)
               /\ t = "scalar" \/ Len(th.input) - th.pos >= ThreadBlock(th)
               /\ \E junk \in JunkAfter(heap, in_end) :
                      With(IF th.kind = "encode"
                           THEN EncodeTier(t, SubSeq(heap, 1, in_end),
                                           InBase(threads, i) + th.pos, heap,
                                           OutBase(threads, i) + th.out_len, copy,
                                           base64_sve_vl, junk)
                                @@ [status |-> "OK"]
                           ELSE DecodeTier(t, SubSeq(heap, 1, in_end),
                                           InBase(threads, i) + th.pos, heap,
                                           OutBase(threads, i) + th.out_len, copy,
                                           base64_sve_vl, junk),
                           LAMBDA r :
                               /\ heap' = r.out
                               /\ threads' =
                                      [threads EXCEPT
                                           ![i].pos = @ + r.ret,
                                           ![i].out_len = @ + r.out_len,
                                           ![i].status = r.status,
                                           ![i].done = (t = "scalar"),
                                           ![i].tier = IF t = "scalar" THEN @ ELSE @ + 1])
    /\ UNCHANGED << detect_vars, trace_vars, build, copy, hw, base64_cpu_features,
                    base64_sve_vl, in_buf, out_buf, plain, op, ret, tier, pos, out_len,
                    status >>

NextConc ==
    \/ Detect
    \/ StartThreads
    \/ ThreadSkipTier
    \/ ThreadRunTier

SpecConc == InitConc /\ [][NextConc]_vars

\* the call c run alone, from tier i on, with buffers of its own:
\* [pos, out, out_len, status]
RECURSIVE CallAlone(_, _, _, _, _)
CallAlone(c, i, p, out, o) ==
    LET t == Tiers(build)[i]
        block == IF c.kind = "encode" THEN EncodeBlock(t, base64_sve_vl)
                 ELSE DecodeBlock(t, base64_sve_vl)
    IN  IF t # "scalar"
           /\ (~TierPresent(t, build, base64_cpu_features, base64_sve_vl)
               \/ Len(c.input) - p < block)
        THEN CallAlone(c, i + 1, p, out, o)
        ELSE With(IF c.kind = "encode"
                  THEN EncodeTier(t, c.input, p, out, o, copy, base64_sve_vl, 0)
                       @@ [status |-> "OK"]
                  ELSE DecodeTier(t, c.input, p, out, o, copy, base64_sve_vl, 0),
                  LAMBDA r :
                      IF t = "scalar"
                      THEN [pos |-> p + r.ret, out |-> r.out, out_len |-> o + r.out_len,
                            status |-> r.status]
                      ELSE CallAlone(c, i + 1, p + r.ret, r.out, o + r.out_len))

\* C17: with detection completed, under every interleaving of the threads'
\* tier steps each call ends with the consumed count, the status and the
\* output it has when run alone; no thread's store lands in another buffer
\* (inputs, guard cells and the output cells a thread has not reached yet keep
\* their value), and the capability cache stays as detection left it.
C17_ConcurrentIndependent ==
    op = "concurrent" =>
        /\ << base64_cpu_features, base64_sve_vl >>
               = base64_init_cpu_features(build, hw, BASE64_CPU_UNKNOWN, 0)
        /\ \A a \in (HeapLen(threads) - GuardLen + 1)..HeapLen(threads) :
               heap[a] = Untouched
        /\ \A i \in 1..Len(threads) :
               /\ \A k \in 1..Len(threads[i].input) :
                      heap[InBase(threads, i) + k] = threads[i].input[k]
               /\ \A k \in (threads[i].out_len + 1)..OutCap(threads[i]) :
                      heap[OutBase(threads, i) + k] = Untouched
               /\ threads[i].done =>
                      With(CallAlone(threads[i], 1, 0, FreshOut(OutCap(threads[i])), 0),
                           LAMBDA alone :
                               /\ threads[i].pos = alone.pos
                               /\ threads[i].out_len = alone.out_len
                               /\ threads[i].status = alone.status
                               /\ \A k \in 1..OutCap(threads[i]) :
                                      heap[OutBase(threads, i) + k] = alone.out[k])

C17_Witness ==
    /\ op = "concurrent"
    /\ build = "x86_64"
    /\ threads[1].kind = "encode"
    /\ ~threads[1].done
    /\ threads[1].pos = 48
    /\ threads[2].kind = "decode"
    /\ threads[2].done
    /\ threads[2].pos = 68

-----------------------------------------------------------------------------
(* The buffers of a call: what the kernels read and what they write *)

\* C18: every index a fast kernel loads from the caller's input is below the
\* input length: the highest offset loaded in a call is at most in_len.
C18_ReadsInBounds ==
    (InCall \/ CallDone) => read_end <= Len(in_buf)

\* C19: a step of a call writes only the output cells of the range it
\* consumed: the cells written before and the cells past the new output
\* length keep their value (a block that stops on padding or on an invalid
\* character leaves its cells untouched), every cell in between is written,
\* and the input buffer is never written.
C19_WritesConfined ==
    [][InCall =>
           /\ in_buf' = in_buf
           /\ Len(out_buf') = Len(out_buf)
           /\ out_len' >= out_len
           /\ \A k \in 1..Len(out_buf) :
                  IF k <= out_len \/ k > out_len'
                  THEN out_buf'[k] = out_buf[k]
                  ELSE out_buf'[k] # Untouched]_vars

C19_Witness ==
    /\ op = "decode"
    /\ build = "arm64"
    /\ tier = 2
    /\ Len(in_buf) >= 32
    /\ ranges = << [tier |-> "neon", from |-> 0, to |-> 16] >>
    /\ out_len = 12
    /\ out_buf[12] # Untouched
    /\ \A k \in 13..Len(out_buf) : out_buf[k] = Untouched

-----------------------------------------------------------------------------
(* The alphabet tables looked up one entry at a time *)

\* every value of a 7-bit index, as the one-byte operand of a lookup
TableOperands == {<< c >> : c \in 0..127}

InitTables ==
    /\ Idle("other", {"header"}, TableOperands)
    /\ hw = NoHw
    /\ base64_cpu_features = BASE64_CPU_UNKNOWN
    /\ base64_sve_vl = 0

\* _b64_table[i] for a sextet i
TableEncode ==
    /\ op = "idle"
    /\ in_buf[1] < 64
    /\ op' = "table_encode"
    /\ ret' = b64_table[in_buf[1] + 1]
    /\ UNCHANGED << detect_vars, conc_vars, trace_vars, build, copy, hw,
                    base64_cpu_features, base64_sve_vl, in_buf, out_buf, plain,
                    tier, pos, out_len, status >>

\* _b64_decode_table[c] for an ASCII byte c
TableDecode ==
    /\ op = "idle"
    /\ op' = "table_decode"
    /\ ret' = b64_decode_table[in_buf[1] + 1]
    /\ UNCHANGED << detect_vars, conc_vars, trace_vars, build, copy, hw,
                    base64_cpu_features, base64_sve_vl, in_buf, out_buf, plain,
                    tier, pos, out_len, status >>

\* _b64_decode_table[_b64_table[i]]: the character just looked up is decoded
TableRoundTrip ==
    /\ op = "table_encode"
    /\ op' = "table_round_trip"
    /\ ret' = b64_decode_table[ret + 1]
    /\ UNCHANGED << detect_vars, conc_vars, trace_vars, build, copy, hw,
                    base64_cpu_features, base64_sve_vl, in_buf, out_buf, plain,
                    tier, pos, out_len, status >>

NextTables ==
    \/ TableEncode
    \/ TableDecode
    \/ TableRoundTrip

SpecTables == InitTables /\ [][NextTables]_vars

\* the character RFC 4648 gives sextet i: A-Z, a-z, 0-9, '+', '/'
AlphabetChar(i) ==
    IF i < 26 THEN 65 + i
    ELSE IF i < 52 THEN 97 + (i - 26)
    ELSE IF i < 62 THEN 48 + (i - 52)
    ELSE IF i = 62 THEN 43 ELSE 47

\* C20: the tables are mutual inverses: the encode table is A-Z, a-z, 0-9,
\* '+', '/' in that order, decoding the character of sextet i gives i, and
\* every ASCII byte outside the alphabet, '=' included, decodes to -1.
C20_TablesInverse ==
    /\ op = "table_encode" => ret = AlphabetChar(in_buf[1])
    /\ op = "table_round_trip" => ret = in_buf[1]
    /\ op = "table_decode" =>
           IF \E i \in 0..63 : AlphabetChar(i) = in_buf[1]
           THEN ret \in 0..63 /\ AlphabetChar(ret) = in_buf[1]
           ELSE ret = -1

C20_Witness ==
    /\ op = "table_decode"
    /\ in_buf = << PadChar >>
    /\ ret = -1

-----------------------------------------------------------------------------
(* The scalar encoder applied to a buffer and to its two parts *)

\* the text the scalar encoder writes for buffer b
ScalarText(b) ==
    With(ScalarEncode(b, 0, Len(b), FreshOut(EncodeOutSize(Len(b))), 0),
         LAMBDA r : SubSeq(r.out, 1, r.out_len))

InitScalar ==
    /\ Idle("other", {"header"}, EncodeInputs)
    /\ hw = NoHw
    /\ base64_cpu_features = BASE64_CPU_UNKNOWN
    /\ base64_sve_vl = 0

\* the whole buffer is encoded
ScalarWhole ==
    /\ op = "idle"
    /\ op' = "scalar_whole"
    /\ out_buf' = ScalarText(in_buf)
    /\ out_len' = Len(out_buf')
    /\ ret' = Len(in_buf)
    /\ UNCHANGED << detect_vars, conc_vars, trace_vars, build, copy, hw,
                    base64_cpu_features, base64_sve_vl, in_buf, plain, tier, pos,
                    status >>

\* the buffer is cut at a multiple of 3 and the two parts are encoded apart
ScalarParts ==
    /\ op = "scalar_whole"
    /\ op' = "scalar_parts"
    /\ \E n \in 0..(Len(in_buf) \div 3) :
           /\ pos' = 3 * n
           /\ plain' = ScalarText(SubSeq(in_buf, 1, 3 * n))
                           \o ScalarText(SubSeq(in_buf, 3 * n + 1, Len(in_buf)))
    /\ UNCHANGED << detect_vars, conc_vars, trace_vars, build, copy, hw,
                    base64_cpu_features, base64_sve_vl, in_buf, out_buf, ret, tier,
                    out_len, status >>

NextScalar ==
    \/ ScalarWhole
    \/ ScalarParts

SpecScalar == InitScalar /\ [][NextScalar]_vars

\* C21: for a buffer cut at a multiple of 3 into X and Y, the scalar encoding
\* of the whole buffer is the encoding of X, which has no padding, followed by
\* the encoding of Y.
C21_GroupIndependence ==
    op = "scalar_parts" =>
        /\ plain = out_buf
        /\ \A k \in 1..(pos \div 3) * 4 : plain[k] # PadChar

C21_Witness ==
    /\ op = "scalar_parts"
    /\ Len(in_buf) = 50
    /\ pos = 48
    /\ plain = out_buf
    /\ plain[68] = PadChar

-----------------------------------------------------------------------------
(* The outcome of a decode call *)

\* the C offsets of the characters of text t outside the alphabet
OutsideAlphabet(t) == {j \in 0..(Len(t) - 1) : ~IsAlpha(t[j + 1])}

\* the status the first character outside the alphabet calls for
StatusOf(t) ==
    IF OutsideAlphabet(t) = {} THEN "OK"
    ELSE IF t[(CHOOSE j \in OutsideAlphabet(t) :
                   \A k \in OutsideAlphabet(t) : j <= k) + 1] = PadChar
    THEN "PADDING" ELSE "INVALID_CHAR"

\* C22: a finished decode call reports OK when every character of the input
\* is in the alphabet, PADDING when the first character outside it is '=',
\* INVALID_CHAR when it is another byte; the fast tiers report only a count.
C22_DecodeStatus ==
    /\ op = "decode_done" => status = StatusOf(in_buf)
    /\ (op = "decode" /\ ranges # << >>) => status = "OK"

-----------------------------------------------------------------------------
(* The fast kernels' wrappers called on a whole buffer, of any length *)

\* the vector lengths svcntb() reports (0: the host has no SVE)
SveLengths == {0, 16, 32, 64, 128, 256}

WrapHw(b) ==
    IF b = "x86_64" THEN {[NoHw EXCEPT !.max_leaf = 7, !.ecx7 = 2]}
    ELSE IF b = "arm64_sve"
    THEN {IF v = 0 THEN NoHw ELSE [NoHw EXCEPT !.hwcap_sve = TRUE, !.svcntb = v] :
              v \in SveLengths}
    ELSE {NoHw}

WrapTextLens == {0, 15, 16, 40, 64, 68, 132, 260}

\* byte buffers of every length up to MaxLen and two that fill the long SVE
\* vectors; texts clean or with one byte outside the alphabet
WrapInputs ==
    {BytePattern(43, 37, n) : n \in 0..MaxLen}
    \cup {BytePattern(43, 37, 100), BytePattern(43, 37, 200)}
    \cup {TextPattern(5, 7, n) : n \in WrapTextLens}
    \cup UNION {{Defect(TextPattern(5, 7, n), p, d) :
                     p \in {0, 17, 70, 129} \cap 0..(n - 1),
                     d \in DefectBytes} : n \in WrapTextLens}

\* detection has run on the host; no call made yet
InitWrappers ==
    /\ \E b \in {"x86_64", "arm64", "arm64_sve"} :
           Idle(b, IF b = "x86_64" THEN {"header", "part_000"} ELSE {"header"},
                WrapInputs)
    /\ hw \in WrapHw(build)
    /\ base64_cpu_features
           = base64_init_cpu_features(build, hw, BASE64_CPU_UNKNOWN, 0)[1]
    /\ base64_sve_vl = base64_init_cpu_features(build, hw, BASE64_CPU_UNKNOWN, 0)[2]

\* a fast encode wrapper of the build is called on the whole buffer
WrapEncode ==
    /\ op = "idle"
    /\ \E i \in 1..Len(Tiers(build)), junk \in JunkBytes :
           /\ Tiers(build)[i] # "scalar"
           /\ tier' = i
           /\ With(EncodeTier(Tiers(build)[i], in_buf, 0,
                              FreshOut(EncodeOutSize(Len(in_buf))), 0, copy,
                              base64_sve_vl, junk),
                   LAMBDA r : /\ out_buf' = r.out
                              /\ ret' = r.ret
                              /\ out_len' = r.out_len)
           /\ read_end' = EncodeReadEnd(Tiers(build)[i], 0, Len(in_buf), base64_sve_vl)
    /\ op' = "wrap_encode"
    /\ UNCHANGED << detect_vars, conc_vars, ranges, build, copy, hw,
                    base64_cpu_features, base64_sve_vl, in_buf, plain, pos, status >>

\* a fast decode wrapper of the build is called on the whole buffer
WrapDecode ==
    /\ op = "idle"
    /\ \E i \in 1..Len(Tiers(build)), junk \in JunkBytes :
           /\ Tiers(build)[i] # "scalar"
           /\ tier' = i
           /\ With(DecodeTier(Tiers(build)[i], in_buf, 0,
                              FreshOut(DecodeOutSize(Len(in_buf))), 0, copy,
                              base64_sve_vl, junk),
                   LAMBDA r : /\ out_buf' = r.out
                              /\ ret' = r.ret
                              /\ out_len' = r.out_len
                              /\ read_end' = DecodeReadEnd(Tiers(build)[i], 0,
                                                 Len(in_buf), base64_sve_vl, r.ret))
    /\ op' = "wrap_decode"
    /\ UNCHANGED << detect_vars, conc_vars, ranges, build, copy, hw,
                    base64_cpu_features, base64_sve_vl, in_buf, plain, pos, status >>

NextWrappers ==
    \/ WrapEncode
    \/ WrapDecode

SpecWrappers == InitWrappers /\ [][NextWrappers]_vars

\* the kernel the wrapper call ran
WrapTier == Tiers(build)[tier]
WrapCalled == op \in {"wrap_encode", "wrap_decode"}

\* the index of the first whole K-character block of text t that holds a
\* character outside the alphabet; the number of whole blocks if none does
FirstStopBlock(t, K) ==
    LET n == Len(t) \div K
        stop == {i \in 0..(n - 1) :
                     \E j \in (i * K + 1)..((i + 1) * K) : ~IsAlpha(t[j])}
    IN  IF stop = {} THEN n ELSE CHOOSE i \in stop : \A k \in stop : i <= k

\* C23: the AVX-512 (K = 64) and NEON (K = 16) decode wrappers return K * i,
\* i the first whole block holding '=' or a byte outside the alphabet (the
\* number of whole blocks if there is none), and have written the output of
\* every block before it.
C23_StopCount ==
    (op = "wrap_decode" /\ WrapTier \in {"avx512", "neon"}) =>
        LET K == DecodeBlock(WrapTier, base64_sve_vl)
        IN  /\ ret = K * FirstStopBlock(in_buf, K)
            /\ \A k \in 1..((K \div 4) * 3 * FirstStopBlock(in_buf, K)) :
                   out_buf[k] # Untouched

\* C24: the AVX-512 (K = 48) and NEON (K = 12) encode wrappers return
\* K * floor(in_len / K), never more than in_len; below one block (48 bytes
\* to encode, 64 characters to decode) the AVX-512 wrappers return 0 and
\* neither load from the input nor store to the output.
C24_WholeBlocksOnly ==
    /\ (op = "wrap_encode" /\ WrapTier \in {"avx512", "neon"}) =>
           /\ ret = EncodeBlock(WrapTier, base64_sve_vl)
                        * (Len(in_buf) \div EncodeBlock(WrapTier, base64_sve_vl))
           /\ ret <= Len(in_buf)
    /\ (WrapCalled /\ WrapTier = "avx512"
            /\ Len(in_buf) < (IF op = "wrap_encode" THEN 48 ELSE 64)) =>
           /\ ret = 0
           /\ read_end = 0
           /\ \A k \in 1..Len(out_buf) : out_buf[k] = Untouched

C24_Witness ==
    /\ op = "wrap_encode"
    /\ WrapTier = "avx512"
    /\ Len(in_buf) = 47
    /\ ret = 0
    /\ read_end = 0
    /\ Len(out_buf) = 64
    /\ out_buf[1] = Untouched

\* C25: with a cached SVE vector length below 32 (0 included) the SVE
\* wrappers return 0 and neither load from the input nor store to the output;
\* with a length of 32 or more they process the whole iterations the input
\* holds.
C25_SveThreshold ==
    (WrapCalled /\ WrapTier = "sve") =>
        IF base64_sve_vl < 32
        THEN /\ ret = 0
             /\ read_end = 0
             /\ \A k \in 1..Len(out_buf) : out_buf[k] = Untouched
        ELSE IF op = "wrap_encode"
        THEN ret = EncodeBlock("sve", base64_sve_vl)
                       * (Len(in_buf) \div EncodeBlock("sve", base64_sve_vl))
        ELSE Len(in_buf) >= base64_sve_vl => read_end >= base64_sve_vl

C25_Witness ==
    /\ op = "wrap_decode"
    /\ WrapTier = "sve"
    /\ base64_sve_vl = 16
    /\ in_buf = TextPattern(5, 7, 64)
    /\ ret = 0
    /\ read_end = 0
    /\ out_buf = FreshOut(48)

\* C28: for every vector length of 32 bytes or more an SVE wrapper runs with,
\* each of the vl index bytes it loads from shuf_data / pack_data lies inside
\* the 64-byte array and has been written, and the tables hold the entries of
\* all vl / 4 triplets of an iteration.
C28_SveTablesCoverIteration ==
    (WrapCalled /\ WrapTier = "sve" /\ base64_sve_vl >= 32) =>
        LET vl == base64_sve_vl
            shuf_vec == SveLoadLocal(shuf_data(vl, Untouched), vl, Untouched)
            pack_idx == SveLoadLocal(pack_data(vl), vl, Untouched)
        IN  /\ \A i \in 0..(vl - 1) : shuf_vec[i] # Untouched /\ pack_idx[i] # Untouched
            /\ \A t \in 0..(vl \div 4 - 1) :
                   /\ shuf_vec[4 * t] = 3 * t + 1
                   /\ pack_idx[3 * t] = 4 * t + 2

-----------------------------------------------------------------------------
(* What detection finds on x86-64 *)

\* C26: on x86-64, once _base64_init_cpu_features() has returned the state is
\* HAS_AVX512 exactly when the maximum basic CPUID leaf is at least 7 and bit 1
\* of ECX of leaf 7 is set, NO_AVX512 otherwise; base64_has_avx512vbmi()
\* answers true exactly in the HAS_AVX512 state.
C26_X86Detection ==
    /\ [](build = "x86_64" /\ detect_calls >= 1 =>
               base64_cpu_features =
                   (IF hw.max_leaf >= 7 /\ hw.ecx7 % 4 \in {2, 3}
                    THEN BASE64_CPU_HAS_AVX512 ELSE BASE64_CPU_NO_AVX512))
    /\ [][(/\ build = "x86_64"
            /\ op' = "has_avx512vbmi"
            /\ (op # op' \/ ret # ret'))
               => (ret' = 1) = (base64_cpu_features = BASE64_CPU_HAS_AVX512)]_vars

C26_Witness ==
    /\ build = "x86_64"
    /\ op = "has_avx512vbmi"
    /\ detect_calls = 1
    /\ hw.max_leaf = 7
    /\ hw.ecx7 = 5
    /\ base64_cpu_features = BASE64_CPU_NO_AVX512
    /\ ret = 0

-----------------------------------------------------------------------------
(* The same decode call under different detected capabilities *)

\* C27: a finished decode call has the output bytes, the consumed count and
\* the status the scalar-only configuration gives the same input, whatever
\* capabilities were detected.
C27_DecodeHardwareIndependent ==
    op = "decode_done" =>
        With(ScalarDecode(in_buf, 0, Len(in_buf),
                          FreshOut(DecodeOutSize(Len(in_buf))), 0),
             LAMBDA s : /\ pos = s.ret
                        /\ status = s.status
                        /\ out_len = s.out_len
                        /\ \A k \in 1..out_len : out_buf[k] = s.out[k])

-----------------------------------------------------------------------------
(* _base64_init_cpu_features() on x86-64 run without the startup contract:
   several threads inside the detector and the query at the same time *)

\* the detector marking the feature present before it has looked at leaf 7,
\* and correcting the word at the end
DetectStepProvisional(th, features, h) ==
    IF th.pc = "guard"
    THEN [th |-> [th EXCEPT !.pc = IF features # BASE64_CPU_UNKNOWN
                                   THEN "done" ELSE "cpuid0"],
          features |-> features]
    ELSE IF th.pc = "cpuid0"
    THEN [th |-> [th EXCEPT !.has = 0,
                            !.pc = IF h.max_leaf >= 7 THEN "cpuid7" ELSE "store"],
          features |-> BASE64_CPU_HAS_AVX512]
    ELSE IF th.pc = "cpuid7"
    THEN [th |-> [th EXCEPT !.has = (h.ecx7 \div 2) % 2, !.pc = "store"],
          features |-> features]
    ELSE [th |-> [th EXCEPT !.pc = "done"],
          features |-> IF th.has # 0 THEN BASE64_CPU_HAS_AVX512
                       ELSE BASE64_CPU_NO_AVX512]

\* one step of the detector by a thread at th.pc: the guard, CPUID leaf 0,
\* CPUID leaf 7, the one store to _base64_cpu_features: [th, features]
DetectStep(th, features, h) ==
    IF th.pc = "guard"
    THEN [th |-> [th EXCEPT !.pc = IF features # BASE64_CPU_UNKNOWN
                                   THEN "done" ELSE "cpuid0"],
          features |-> features]
    ELSE IF th.pc = "cpuid0"
    THEN [th |-> [th EXCEPT !.has = 0,
                            !.pc = IF h.max_leaf >= 7 THEN "cpuid7" ELSE "store"],
          features |-> features]
    ELSE IF th.pc = "cpuid7"
    THEN [th |-> [th EXCEPT !.has = (h.ecx7 \div 2) % 2, !.pc = "store"],
          features |-> features]
    ELSE [th |-> [th EXCEPT !.pc = "done"],
          features |-> IF th.has # 0 THEN BASE64_CPU_HAS_AVX512
                       ELSE BASE64_CPU_NO_AVX512]

InitRace ==
    /\ ProcessStartOn(1, DetectHw)
    /\ build = "x86_64"

\* the threads enter the detector or the query, none having finished detection
StartRace ==
    /\ op = "idle"
    /\ detect_calls = 0
    /\ \E roles \in [1..NThreads -> {"detect", "query"}] :
           /\ \E i \in 1..NThreads : roles[i] = "detect"
           /\ threads' = [i \in 1..NThreads |->
                             [role |-> roles[i],
                              pc |-> IF roles[i] = "detect" THEN "guard" ELSE "read",
                              has |-> 0, seen |-> FALSE]]
    /\ op' = "race"
    /\ UNCHANGED << detect_vars, trace_vars, heap, build, copy, hw,
                    base64_cpu_features, base64_sve_vl, in_buf, out_buf, plain, ret,
                    tier, pos, out_len, status >>

\* a thread inside _base64_init_cpu_features() takes its next step
RaceDetectStep ==
    /\ op = "race"
    /\ \E i \in 1..Len(threads) :
           /\ threads[i].role = "detect"
           /\ threads[i].pc # "done"
           /\ With(DetectStep(threads[i], base64_cpu_features, hw), LAMBDA r :
                  /\ threads' = [threads EXCEPT ![i] = r.th]
                  /\ base64_cpu_features' = r.features)
    /\ UNCHANGED << detect_vars, trace_vars, heap, build, copy, hw, base64_sve_vl,
                    in_buf, out_buf, plain, op, ret, tier, pos, out_len, status >>

\* a thread evaluates base64_has_avx512vbmi(): one load of the word
RaceQueryStep ==
    /\ op = "race"
    /\ \E i \in 1..Len(threads) :
           /\ threads[i].role = "query"
           /\ threads[i].pc = "read"
           /\ threads' = [threads EXCEPT
                              ![i].seen = base64_has_avx512vbmi(build, base64_cpu_features),
                              ![i].pc = "done"]
    /\ UNCHANGED << detect_vars, trace_vars, heap, build, copy, hw,
                    base64_cpu_features, base64_sve_vl, in_buf, out_buf, plain, op,
                    ret, tier, pos, out_len, status >>

NextRace ==
    \/ StartRace
    \/ RaceDetectStep
    \/ RaceQueryStep

SpecRace == InitRace /\ [][NextRace]_vars

\* the value detection run alone leaves in the word on this host
FinalFeatures == base64_init_cpu_features(build, hw, BASE64_CPU_UNKNOWN, 0)[1]

\* C29: with threads inside the detector and the query at the same time, the
\* capability word holds UNKNOWN or its final value and nothing else, every
\* detector call that has returned leaves the final value in it, and a query
\* answers true only on a host that has the feature.
C29_DetectorRace ==
    op = "race" =>
        /\ base64_cpu_features \in {BASE64_CPU_UNKNOWN, FinalFeatures}
        /\ \A i \in 1..Len(threads) :
               /\ (threads[i].role = "detect" /\ threads[i].pc = "done") =>
                      base64_cpu_features = FinalFeatures
               /\ (threads[i].role = "query" /\ threads[i].seen) =>
                      FinalFeatures = BASE64_CPU_HAS_AVX512

C29_Witness ==
    /\ op = "race"
    /\ hw.max_leaf = 7
    /\ hw.ecx7 = 3
    /\ threads[1].role = "detect"
    /\ threads[1].pc = "store"
    /\ threads[2].role = "detect"
    /\ threads[2].pc = "done"
    /\ base64_cpu_features = BASE64_CPU_HAS_AVX512

====
